---- MODULE Spec2Model ----
(***************************************************************************)
(* Model of aea/mail/base.py: AsyncMultiplexer, the sync Multiplexer and   *)
(* the InBox / OutBox views, as tasks on one cooperative event loop.       *)
(* One action is one run of a task between two suspension points.          *)
(***************************************************************************)
EXTENDS Integers, Sequences, FiniteSets, TLC

\* ---------------------------------------------------------------- bounds
\* Lifecycle specification (Spec).
MaxCalls == 3
MaxPuts == 1
MaxRecv == 1
MaxFaults == 2
\* Receive-loop specification (SpecRecv).
RecvMaxRecv == 3
RecvMaxFaults == 1
\* Send-loop specification (SpecSend).
SendMaxPuts == 2
SendMaxFaults == 1
SendMaxRoutingSets == 1

\* --------------------------------------------------------- configuration
\* The connections handed to __init__, in declared order, by connection id.
Connections == <<"c1", "c2">>
ConnIds == {Connections[i] : i \in DOMAIN Connections}
UnknownId == "cx"
NoId == "None"
Protocols == {"p", "q"}
restricted_to_protocols == [c \in ConnIds |-> IF c = "c2" THEN {"q"} ELSE {}]

Callers == {1, 2}

\* The None token of _stop, as an element of the out-queue.
NoneEnvelope == [id |-> 0, protocol_id |-> "None", connection_id |-> NoId]
\* Envelope(to, sender, protocol_id, message, context): the fields the
\* multiplexer reads are protocol_id and context.connection_id; id stands for
\* the opaque to/sender/message.
Envelope(i, p, cid) == [id |-> i, protocol_id |-> p, connection_id |-> cid]

EmptyRouting == [p \in Protocols |-> NoId]
RoutingTables ==
    { [p \in Protocols |-> IF p = "p" THEN t ELSE NoId] : t \in {"c2", UnknownId} }
        \cup { [p \in Protocols |-> IF p = "q" THEN "c2" ELSE NoId] }

\* ------------------------------------------------------- envelope on the wire
\* EnvelopeContext.uri: None, or URI(uri_raw); two URIs of the strings used
\* here are equal exactly when their strings are.
NoUri == [set |-> FALSE, raw |-> ""]
URI(uri_raw) == [set |-> TRUE, raw |-> uri_raw]

EnvelopeContext(connection_id, uri) == [connection_id |-> connection_id, uri |-> uri]

\* EnvelopeContext(): what Envelope.__init__ puts in place of context=None.
EmptyContext == EnvelopeContext(NoId, NoUri)

\* EnvelopeContext.uri_raw: str(self.uri), and str(None) is "None".
uri_raw(context) == IF context.uri.set THEN context.uri.raw ELSE "None"

\* Envelope with all its five fields, as the serializer reads them.
WireEnvelope(to, sender, protocol_id, message, context) ==
    [to |-> to, sender |-> sender, protocol_id |-> protocol_id,
     message |-> message, context |-> context]

\* str(PublicId) and PublicId.from_str.
PublicIdStr(p) == <<p.author, p.name, p.version>>
PublicIdFromStr(t) == [author |-> t[1], name |-> t[2], version |-> t[3]]

\* An encode that leaves the message out.
encode_without_message(envelope) ==
    [to |-> envelope.to, sender |-> envelope.sender,
     protocol_id |-> PublicIdStr(envelope.protocol_id),
     message |-> "", uri |-> uri_raw(envelope.context)]

\* ProtobufEnvelopeSerializer.encode: the fields of the base_pb2.Envelope.
encode(envelope) ==
    [to |-> envelope.to, sender |-> envelope.sender,
     protocol_id |-> PublicIdStr(envelope.protocol_id),
     message |-> envelope.message, uri |-> uri_raw(envelope.context)]

\* ProtobufEnvelopeSerializer.decode of a base_pb2.Envelope.
decode(envelope_pb) ==
    IF envelope_pb.uri = ""
    THEN WireEnvelope(envelope_pb.to, envelope_pb.sender,
                      PublicIdFromStr(envelope_pb.protocol_id), envelope_pb.message,
                      EnvelopeContext(NoId, URI(envelope_pb.uri)))
    ELSE WireEnvelope(envelope_pb.to, envelope_pb.sender,
                      PublicIdFromStr(envelope_pb.protocol_id), envelope_pb.message,
                      EmptyContext)

\* The values the serializer is tried on.
Addresses == {"a", "b"}
PublicIds == {[author |-> "fetchai", name |-> n, version |-> "0.1.0"] : n \in {"default", "fipa"}}
Messages == {"m1", "m2"}
UriStrings == {"", "None", "http://h/p"}
Contexts == {EnvelopeContext(c, u) : c \in {NoId, "c1"},
                                     u \in {NoUri} \cup {URI(r) : r \in UriStrings}}
WireEnvelopes ==
    {WireEnvelope(t, "s", p, m, c) : t \in Addresses, p \in PublicIds,
                                     m \in Messages, c \in Contexts}
WireRecords ==
    {[to |-> "a", sender |-> "s", protocol_id |-> PublicIdStr(p), message |-> m,
      uri |-> u] : p \in PublicIds, m \in Messages, u \in UriStrings}

\* ------------------------------------------------------------ construction
\* Bounds of the constructor arguments tried.
MaxConnections == 3
CtorIds == {"c1", "c2", "c3"}
ConnectionLists == UNION {[1..n -> CtorIds] : n \in 0..MaxConnections}
Indexes == (0 - 1)..MaxConnections

Failed(error) == [ok |-> FALSE, error |-> error, ids |-> {}, default |-> NoId]

\* A constructor without the assertion on default_connection_index: a
\* negative index counts from the end of the list.
init_unchecked_index(connections, default_connection_index) ==
    IF ~(Len(connections) > 0) THEN Failed("AssertionError")
    ELSE IF Cardinality({connections[i] : i \in DOMAIN connections}) # Len(connections)
    THEN Failed("AssertionError")
    ELSE IF default_connection_index >= Len(connections) THEN Failed("IndexError")
    ELSE [ok |-> TRUE, error |-> "none",
          ids |-> {connections[i] : i \in DOMAIN connections},
          default |-> IF default_connection_index >= 0
                      THEN connections[default_connection_index + 1]
                      ELSE connections[Len(connections)]]

\* AsyncMultiplexer.__init__ on a list of connections given by their ids: the
\* three assertions, then _id_to_connection and default_connection.
init(connections, default_connection_index) ==
    IF ~(Len(connections) > 0) THEN Failed("AssertionError")
    ELSE IF ~(0 <= default_connection_index
              /\ default_connection_index <= Len(connections) - 1)
    THEN Failed("AssertionError")
    ELSE IF Cardinality({connections[i] : i \in DOMAIN connections}) # Len(connections)
    THEN Failed("AssertionError")
    ELSE [ok |-> TRUE, error |-> "none",
          ids |-> {connections[i] : i \in DOMAIN connections},
          default |-> connections[default_connection_index + 1]]

\* ----------------------------------------------------------------- in-queue
\* The number of gets tried.
MaxGets == 2

Getters == {"Multiplexer.get", "InBox.get", "InBox.get_nowait"}

Returned(value, queue) == [raised |-> "none", value |-> value, queue |-> queue]
Raised(error, queue) == [raised |-> error, value |-> NoneEnvelope, queue |-> queue]

\* in_queue.get(block=False): the oldest envelope, or queue.Empty.
queue_get(queue) ==
    IF queue = <<>> THEN Raised("queue.Empty", queue)
    ELSE Returned(Head(queue), Tail(queue))

\* A get that returns None where the queue is empty.
get_returns_none(queue) ==
    LET r == queue_get(queue)
    IN  IF r.raised = "queue.Empty" THEN Returned(NoneEnvelope, r.queue) ELSE r

\* AsyncMultiplexer.get(block=False).
multiplexer_get(queue) ==
    LET r == queue_get(queue)
    IN  IF r.raised = "queue.Empty" THEN Raised("Empty", r.queue) ELSE r

\* InBox.get(block=False).
inbox_get(queue) ==
    LET r == multiplexer_get(queue)
    IN  IF r.raised = "none" /\ r.value = NoneEnvelope
        THEN Raised("Empty", r.queue) ELSE r

\* InBox.get_nowait().
inbox_get_nowait(queue) ==
    LET r == inbox_get(queue)
    IN  IF r.raised = "Empty" THEN Returned(NoneEnvelope, r.queue) ELSE r

\* ----------------------------------------------------------- decision maker
\* The number of messages handle is given.
MaxHandles == 1

OFF_CHAIN == "off_chain"
SUPPORTED_LEDGER_APIS == {"fetchai", "ethereum"}

\* The messages handle is given. Of a TransactionMessage the fields that
\* handle reads: the ledger id, the performative (the two proposals and one
\* other), sender_amount by its sign, signing_payload by what "tx_hash" and
\* "tx" hold. One StateUpdateMessage.
InternalMessages ==
    [kind : {"TransactionMessage"},
     ledger_id : SUPPORTED_LEDGER_APIS \cup {OFF_CHAIN, "unsupported"},
     performative : {"PROPOSE_FOR_SETTLEMENT", "PROPOSE_FOR_SIGNING",
                     "SUCCESSFUL_SETTLEMENT"},
     sender_amount : {0 - 1, 1},
     tx_hash : {"bytes", "None"}, tx : {"tx", "None"}]
    \cup {[kind |-> "StateUpdateMessage", ledger_id |-> OFF_CHAIN,
            performative |-> "INITIALIZE", sender_amount |-> 0,
            tx_hash |-> "None", tx |-> "None"]}

\* What the handler's context answers during one call: whether the
\* transaction enhances utility, whether it is affordable, and what
\* ledger_apis.transfer returns.
HandlerContexts ==
    [utility_enhancing : BOOLEAN, affordable : BOOLEAN,
     transfer : {"digest", "None"}]

\* What a call did: the exception it ended with, the responses it put on
\* message_out_queue (each the performative and the payload given to
\* respond_settlement or respond_signing), and the transfers and signatures
\* it made.
Handled(raised, put, calls) == [raised |-> raised, put |-> put, calls |-> calls]

\* self.wallet.crypto_objects.get(ledger_id)
crypto_objects_get(w, ledger_id) == IF ledger_id \in w THEN ledger_id ELSE "None"

is_valid_tx_amount(tx_message) == tx_message.sender_amount <= 0

is_acceptable_for_settlement(tx_message, ctx) ==
    /\ is_valid_tx_amount(tx_message)
    /\ ctx.utility_enhancing
    /\ ctx.affordable

\* _settle_tx: the digest, and the transfer made to get it.
settle_tx(tx_message, w, ctx) ==
    IF tx_message.ledger_id = OFF_CHAIN
    THEN [raised |-> "none", value |-> "off_chain_settlement", calls |-> <<>>]
    ELSE LET crypto_object == crypto_objects_get(w, tx_message.ledger_id)
         IN  [raised |-> "none", value |-> ctx.transfer,
              calls |-> <<[fn |-> "transfer", crypto_object |-> crypto_object]>>]

handle_tx_message_for_settlement(tx_message, w, ctx) ==
    IF is_acceptable_for_settlement(tx_message, ctx)
    THEN LET tx_digest == settle_tx(tx_message, w, ctx)
         IN  IF tx_digest.value # "None"
             THEN Handled("none",
                          <<[performative |-> "SUCCESSFUL_SETTLEMENT",
                            payload |-> tx_digest.value]>>,
                          tx_digest.calls)
             ELSE Handled("none", <<[performative |-> "FAILED_SETTLEMENT",
                                    payload |-> "None"]>>,
                          tx_digest.calls)
    ELSE Handled("none", <<[performative |-> "REJECTED_SETTLEMENT",
                            payload |-> "None"]>>, <<>>)

is_valid_message(tx_message) == tx_message.tx_hash = "bytes"

is_valid_tx(tx_message) == tx_message.tx # "None"

is_acceptable_for_signing(tx_message, ctx) ==
    /\ is_valid_message(tx_message) \/ is_valid_tx(tx_message)
    /\ ctx.utility_enhancing
    /\ ctx.affordable

\* _sign_tx_hash: crypto_object.sign_message, on whatever the wallet gave.
sign_tx_hash(tx_message, w) ==
    LET crypto_object == IF tx_message.ledger_id = OFF_CHAIN
                         THEN crypto_objects_get(w, "ethereum")
                         ELSE crypto_objects_get(w, tx_message.ledger_id)
    IN  IF crypto_object = "None"
        THEN [raised |-> "AttributeError", value |-> "None", calls |-> <<>>]
        ELSE [raised |-> "none", value |-> "tx_signature",
              calls |-> <<[fn |-> "sign_message", crypto_object |-> crypto_object]>>]

\* _sign_ledger_tx: crypto_object.sign_transaction, likewise.
sign_ledger_tx(tx_message, w) ==
    LET crypto_object == IF tx_message.ledger_id = OFF_CHAIN
                         THEN crypto_objects_get(w, "ethereum")
                         ELSE crypto_objects_get(w, tx_message.ledger_id)
    IN  IF crypto_object = "None"
        THEN [raised |-> "AttributeError", value |-> "None", calls |-> <<>>]
        ELSE [raised |-> "none", value |-> "tx_signed",
              calls |-> <<[fn |-> "sign_transaction", crypto_object |-> crypto_object]>>]

\* _handle_tx_message_for_signing: the hash is signed if there is one, then
\* the transaction if there is one, and the response carries the signature
\* made last.
handle_tx_message_for_signing(tx_message, w, ctx) ==
    IF is_acceptable_for_signing(tx_message, ctx)
    THEN LET tx_signature == IF is_valid_message(tx_message)
                             THEN sign_tx_hash(tx_message, w)
                             ELSE [raised |-> "none", value |-> "None", calls |-> <<>>]
         IN  IF tx_signature.raised # "none"
             THEN Handled(tx_signature.raised, <<>>, tx_signature.calls)
             ELSE LET tx_signed == IF is_valid_tx(tx_message)
                                   THEN sign_ledger_tx(tx_message, w)
                                   ELSE [raised |-> "none", value |-> "None",
                                         calls |-> <<>>]
                  IN  IF tx_signed.raised # "none"
                      THEN Handled(tx_signed.raised, <<>>,
                                   tx_signature.calls \o tx_signed.calls)
                      ELSE Handled("none",
                                   <<[performative |-> "SUCCESSFUL_SIGNING",
                                     payload |-> IF is_valid_tx(tx_message)
                                                 THEN tx_signed.value
                                                 ELSE tx_signature.value]>>,
                                   tx_signature.calls \o tx_signed.calls)
    ELSE Handled("none", <<[performative |-> "REJECTED_SIGNING",
                            payload |-> "None"]>>, <<>>)

\* _handle_tx_message: an unsupported ledger id and an unexpected
\* performative are logged and nothing else is done.
handle_tx_message(tx_message, w, ctx) ==
    IF tx_message.ledger_id \notin SUPPORTED_LEDGER_APIS \cup {OFF_CHAIN}
    THEN Handled("none", <<>>, <<>>)
    ELSE IF tx_message.performative = "PROPOSE_FOR_SETTLEMENT"
    THEN handle_tx_message_for_settlement(tx_message, w, ctx)
    ELSE IF tx_message.performative = "PROPOSE_FOR_SIGNING"
    THEN handle_tx_message_for_signing(tx_message, w, ctx)
    ELSE Handled("none", <<>>, <<>>)

\* DecisionMakerHandler.handle: a state update changes what the context
\* answers later and puts nothing on message_out_queue.
handle(message, w, ctx) ==
    IF message.kind = "TransactionMessage"
    THEN handle_tx_message(message, w, ctx)
    ELSE Handled("none", <<>>, <<>>)

VARIABLES
    limits,             \* what the environment does at most in this run
    facade,             \* TRUE: the object is a sync Multiplexer
    ext_loop,           \* the event loop is run by somebody else
    default_connection, \* self.default_connection (its id)
    child_status,       \* c.connection_status of every connection
    mux_connected,      \* self._connection_status.is_connected
    out_gen,            \* identity of the object in self._out_queue, 0 = None
    out_queue,          \* content of the object in self._out_queue
    in_queue,           \* self._in_queue
    default_routing,    \* self._default_routing
    send_pc, send_cancel, send_wait_gen, send_conn, send_exit,
    recv_pc, recv_cancel, task_to_connection, task_env,
    lock, pc, op, hpc, hidx, hlist, hpath, hsecond, hcancelled,
    sync_lock, thread_alive, thread_was_started, sync_is_connected,
    route_log, connect_log, last_done, last_return, child_failed, nreturns,
    connect_called, put_refused,
    got,                \* the envelopes get has returned, in order
    produced,           \* the envelopes receive() has returned, in order
    ser_pc,             \* what the envelope serializer was last asked to do
    ser_env,            \* the envelope given to encode
    ser_wire,           \* the record encode wrote or decode was given
    ser_out,            \* the envelope decode returned
    ctor_pc,            \* whether a constructor call was tried
    ctor_args,          \* its connections and default_connection_index
    ctor_res,           \* what it gave
    get_res,            \* the outcome of the last get of the in-queue
    send_env,           \* the envelope _send is routing between its two reads
    send_in_table,      \* what "protocol_id in self.default_routing" gave
    send_table,         \* the table that test read
    put_msg,            \* the arguments of the last OutBox.put_message
    wallet,             \* the ledger ids the decision maker's wallet has a crypto object for
    message_out_queue,  \* the responses the decision maker has put for the skills
    handled,            \* the last message handle was given and what handle did
    ncalls, nput, nrecv, faults, nsets

\* What no step of the multiplexer's own code writes.
ser_vars == <<ser_pc, ser_env, ser_wire, ser_out>>
ctor_vars == <<ctor_pc, ctor_args, ctor_res>>
route_vars == <<send_env, send_in_table, send_table>>
cfg_vars == <<limits, facade, ext_loop, default_connection, got, produced,
              ser_vars, ctor_vars, get_res, route_vars, put_msg, wallet, message_out_queue, handled>>
send_vars == <<send_pc, send_cancel, send_wait_gen, send_conn, send_exit>>
recv_vars == <<recv_pc, recv_cancel, task_to_connection, task_env>>
call_vars == <<lock, pc, op, hpc, hidx, hlist, hpath, hsecond, hcancelled>>
sync_vars == <<sync_lock, thread_alive, thread_was_started, sync_is_connected>>
ghost_vars == <<connect_log, last_done, last_return, child_failed, nreturns,
               ncalls, connect_called, put_refused>>
vars == <<cfg_vars, child_status, mux_connected, out_gen, out_queue, in_queue,
          default_routing, send_vars, recv_vars, call_vars, sync_vars,
          route_log, ghost_vars, nput, nrecv, faults, nsets>>

\* ---------------------------------------------------------------- helpers
\* AsyncMultiplexer.is_connected
is_connected == \A c \in ConnIds : child_status[c] = "connected"

\* loop.is_running()
LoopRunning == ext_loop \/ thread_alive

Last(s) == s[Len(s)]

\* The environment may still misbehave in the given way: connect() or
\* disconnect() or send() or receive() of a connection raising, a link lost.
MayFail(kind) == faults < limits.faults /\ kind \in limits.kinds

\* The state after __init__, for an environment bounded by lim.
InitWith(lim) ==
    /\ limits = lim
    /\ facade \in lim.facade
    /\ ext_loop \in BOOLEAN
    /\ (~facade => ext_loop)
    /\ default_connection \in lim.default
    /\ child_status = [c \in ConnIds |-> "disconnected"]
    /\ mux_connected = FALSE
    /\ out_gen = 0
    /\ out_queue = <<>>
    /\ in_queue = <<>>
    /\ default_routing = EmptyRouting
    /\ send_pc = "none" /\ send_cancel = FALSE /\ send_wait_gen = 0
    /\ send_conn = NoId /\ send_exit = "none"
    /\ recv_pc = "none" /\ recv_cancel = FALSE
    /\ task_to_connection = [c \in ConnIds |-> "none"]
    /\ task_env = [c \in ConnIds |-> 0]
    /\ lock = 0
    /\ pc = [c \in Callers |-> "idle"]
    /\ op = [c \in Callers |-> "none"]
    /\ hpc = "none" /\ hidx = 0 /\ hlist = <<>> /\ hpath = "none"
    /\ hsecond = FALSE /\ hcancelled = FALSE
    /\ sync_lock = 0 /\ thread_alive = FALSE /\ thread_was_started = FALSE
    /\ sync_is_connected = FALSE
    /\ route_log = <<>>
    /\ connect_log = <<>>
    /\ last_done = "constructed"
    /\ last_return = [op |-> "none", res |-> "none", second |-> FALSE,
                      failed |-> FALSE, cancelled |-> FALSE]
    /\ child_failed = FALSE
    /\ nreturns = 0
    /\ connect_called = FALSE
    /\ put_refused = "none"
    /\ got = <<>>
    /\ produced = <<>>
    /\ get_res = [n |-> 0, via |-> "none", out |-> Raised("none", <<>>)]
    /\ put_msg = [n |-> 0, protocol_id |-> "None"]
    /\ wallet = {"none"}
    /\ message_out_queue = <<>>
    /\ handled = [n |-> 0,
                  message |-> [kind |-> "None", ledger_id |-> OFF_CHAIN,
                               performative |-> "INITIALIZE", sender_amount |-> 0,
                               tx_hash |-> "None", tx |-> "None"],
                  context |-> [utility_enhancing |-> TRUE, affordable |-> TRUE,
                               transfer |-> "None"],
                  res |-> Handled("none", <<>>, <<>>)]
    /\ send_env = NoneEnvelope
    /\ send_in_table = FALSE
    /\ send_table = EmptyRouting
    /\ ctor_pc = "idle"
    /\ ctor_args = [connections |-> Connections, index |-> 0]
    /\ ctor_res = Failed("none")
    /\ ser_pc = "idle"
    /\ ser_env = WireEnvelope("a", "s", CHOOSE p \in PublicIds : TRUE, "m1", EmptyContext)
    /\ ser_wire = encode(ser_env)
    /\ ser_out = ser_env
    /\ ncalls = 0 /\ nput = 0 /\ nrecv = 0 /\ faults = 0 /\ nsets = 0

\* ------------------------------------------------------------- send loop
\* Variants of _send that differ from the code in one decision.
\* The default routing table is looked up before the envelope context.
send_routing_first(envelope) ==
    LET by_table == default_routing[envelope.protocol_id]
        connection_id == IF by_table # NoId THEN by_table
                                            ELSE envelope.connection_id
    IN  IF connection_id # NoId /\ connection_id \notin ConnIds
        THEN [outcome |-> "AEAConnectionError", conn |-> NoId]
        ELSE LET connection == IF connection_id = NoId THEN default_connection
                                                       ELSE connection_id
             IN  IF /\ Cardinality(restricted_to_protocols[connection]) > 0
                    /\ envelope.protocol_id \notin restricted_to_protocols[connection]
                 THEN [outcome |-> "dropped", conn |-> NoId]
                 ELSE [outcome |-> "sending", conn |-> connection]

\* restricted_to_protocols is not looked at.
send_unrestricted(envelope) ==
    LET by_context == envelope.connection_id
        connection_id ==
            IF by_context = NoId /\ default_routing[envelope.protocol_id] # NoId
            THEN default_routing[envelope.protocol_id]
            ELSE by_context
    IN  IF connection_id # NoId /\ connection_id \notin ConnIds
        THEN [outcome |-> "AEAConnectionError", conn |-> NoId]
        ELSE [outcome |-> "sending",
              conn |-> IF connection_id = NoId THEN default_connection
                                               ELSE connection_id]

\* An id that is not in the connection map falls back to the default
\* connection.
send_fallback(envelope) ==
    LET by_context == envelope.connection_id
        connection_id ==
            IF by_context = NoId /\ default_routing[envelope.protocol_id] # NoId
            THEN default_routing[envelope.protocol_id]
            ELSE by_context
        connection == IF connection_id \in ConnIds THEN connection_id
                                                   ELSE default_connection
    IN  IF /\ Cardinality(restricted_to_protocols[connection]) > 0
           /\ envelope.protocol_id \notin restricted_to_protocols[connection]
        THEN [outcome |-> "dropped", conn |-> NoId]
        ELSE [outcome |-> "sending", conn |-> connection]

\* AsyncMultiplexer._send up to the call of connection.send: the routing
\* decision for one envelope.
send(envelope) ==
    LET by_context == envelope.connection_id
        connection_id ==
            IF by_context = NoId /\ default_routing[envelope.protocol_id] # NoId
            THEN default_routing[envelope.protocol_id]
            ELSE by_context
    IN  IF connection_id # NoId /\ connection_id \notin ConnIds
        THEN [outcome |-> "AEAConnectionError", conn |-> NoId]
        ELSE LET connection == IF connection_id = NoId THEN default_connection
                                                       ELSE connection_id
             IN  IF /\ Cardinality(restricted_to_protocols[connection]) > 0
                    /\ envelope.protocol_id \notin restricted_to_protocols[connection]
                 THEN [outcome |-> "dropped", conn |-> NoId]
                 ELSE [outcome |-> "sending", conn |-> connection]

\* _send from the check of the connection id on.
send_route(envelope, connection_id) ==
    IF connection_id # NoId /\ connection_id \notin ConnIds
    THEN [outcome |-> "AEAConnectionError", conn |-> NoId]
    ELSE LET connection == IF connection_id = NoId THEN default_connection
                                                   ELSE connection_id
         IN  IF /\ Cardinality(restricted_to_protocols[connection]) > 0
                /\ envelope.protocol_id \notin restricted_to_protocols[connection]
             THEN [outcome |-> "dropped", conn |-> NoId]
             ELSE [outcome |-> "sending", conn |-> connection]

\* The condition of the if in _send: the first read of self.default_routing.
send_test(envelope, table) ==
    envelope.connection_id = NoId /\ table[envelope.protocol_id] # NoId

\* The body of the if in _send: the second read of self.default_routing, a
\* subscript that raises KeyError for a protocol the table does not have.
send_lookup(envelope, in_table, table) ==
    IF in_table
    THEN IF table[envelope.protocol_id] = NoId
         THEN [outcome |-> "KeyError", conn |-> NoId]
         ELSE send_route(envelope, table[envelope.protocol_id])
    ELSE send_route(envelope, envelope.connection_id)

\* One item taken from the out-queue by _send_loop.
send_loop_item(item) ==
    /\ out_queue' = Tail(out_queue)
    /\ IF item = NoneEnvelope
       THEN /\ send_pc' = "done"
            /\ send_exit' = "sentinel"
            /\ UNCHANGED <<send_conn, route_log>>
       ELSE LET r == send(item)
            IN  /\ route_log' = Append(route_log,
                       [env |-> item, table |-> default_routing,
                        dflt |-> default_connection,
                        outcome |-> r.outcome, conn |-> r.conn])
                /\ send_conn' = r.conn
                /\ send_pc' = IF r.outcome = "sending" THEN "sending" ELSE "loop"
                /\ UNCHANGED send_exit

\* _send_loop at the head of its while loop.
send_loop ==
    /\ LoopRunning
    /\ send_pc = "loop"
    /\ ~send_cancel
    /\ IF ~is_connected
       THEN /\ send_pc' = "done"
            /\ send_exit' = "not_connected"
            /\ UNCHANGED <<out_queue, send_conn, route_log, send_wait_gen>>
       ELSE IF out_queue = <<>>
            THEN /\ send_pc' = "waiting"
                 /\ send_wait_gen' = out_gen
                 /\ UNCHANGED <<out_queue, send_conn, route_log, send_exit>>
            ELSE /\ send_loop_item(Head(out_queue))
                 /\ UNCHANGED send_wait_gen
    /\ UNCHANGED <<cfg_vars, child_status, mux_connected, out_gen, in_queue,
                   default_routing, send_cancel, recv_vars, call_vars, sync_vars, ghost_vars, nput, nrecv, faults, nsets>>

\* _send_loop resumed from "await self.out_queue.get()": the queue object it
\* waits on is the one that was in self._out_queue when it called get().
send_loop_get ==
    /\ LoopRunning
    /\ send_pc = "waiting"
    /\ ~send_cancel
    /\ send_wait_gen = out_gen
    /\ out_queue # <<>>
    /\ send_loop_item(Head(out_queue))
    /\ send_wait_gen' = 0
    /\ UNCHANGED <<cfg_vars, child_status, mux_connected, out_gen, in_queue,
                   default_routing, send_cancel, recv_vars,
                   call_vars, sync_vars, ghost_vars, nput, nrecv,
                   faults, nsets>>

\* _send_loop takes an envelope and _send evaluates the condition of its if;
\* another thread may run before the body of the if.
send_loop_test ==
    /\ LoopRunning
    /\ ~send_cancel
    /\ \/ send_pc = "loop" /\ is_connected
       \/ send_pc = "waiting" /\ send_wait_gen = out_gen
    /\ out_queue # <<>>
    /\ Head(out_queue) # NoneEnvelope
    /\ out_queue' = Tail(out_queue)
    /\ send_env' = Head(out_queue)
    /\ send_in_table' = send_test(Head(out_queue), default_routing)
    /\ send_table' = default_routing
    /\ send_pc' = "routing"
    /\ send_wait_gen' = 0
    /\ UNCHANGED <<limits, facade, ext_loop, default_connection, got, produced,
                   ser_vars, ctor_vars, get_res, put_msg, wallet, message_out_queue, handled, child_status, mux_connected,
                   out_gen, in_queue, default_routing, send_cancel, send_conn,
                   send_exit, recv_vars, call_vars, sync_vars, route_log,
                   ghost_vars, nput, nrecv, faults, nsets>>

\* _send goes on from the condition of its if to the call of connection.send;
\* a KeyError ends the send loop through its "except Exception".
send_loop_lookup ==
    /\ LoopRunning
    /\ send_pc = "routing"
    /\ LET r == send_lookup(send_env, send_in_table, default_routing)
       IN  /\ route_log' = Append(route_log,
                   [env |-> send_env, table |-> default_routing,
                    dflt |-> default_connection,
                    outcome |-> r.outcome, conn |-> r.conn])
           /\ send_conn' = r.conn
           /\ send_pc' = IF r.outcome = "sending" THEN "sending"
                         ELSE IF r.outcome = "KeyError" THEN "done" ELSE "loop"
           /\ send_exit' = IF r.outcome = "KeyError" THEN "exception" ELSE send_exit
    /\ send_env' = NoneEnvelope
    /\ send_in_table' = FALSE
    /\ send_table' = EmptyRouting
    /\ UNCHANGED <<limits, facade, ext_loop, default_connection, got, produced,
                   ser_vars, ctor_vars, get_res, put_msg, wallet, message_out_queue, handled, child_status, mux_connected,
                   out_gen, out_queue, in_queue, default_routing, send_cancel,
                   send_wait_gen, recv_vars, call_vars, sync_vars,
                   ghost_vars, nput, nrecv, faults, nsets>>

SetLastOutcome(o) ==
    [route_log EXCEPT ![Len(route_log)] = [@ EXCEPT !.outcome = o]]

\* A send loop that puts an envelope whose send() raised back on the
\* out-queue and goes on.
send_loop_sent_retry ==
    /\ LoopRunning
    /\ send_pc = "sending"
    /\ ~send_cancel
    /\ \/ /\ route_log' = SetLastOutcome("sent")
          /\ send_pc' = "loop"
          /\ UNCHANGED <<send_exit, faults, out_queue>>
       \/ /\ MayFail("send")
          /\ faults' = faults + 1
          /\ route_log' = SetLastOutcome("send_raised")
          /\ out_queue' = Append(out_queue, Last(route_log).env)
          /\ send_pc' = "loop"
          /\ UNCHANGED send_exit
    /\ send_conn' = NoId
    /\ UNCHANGED <<cfg_vars, child_status, mux_connected, out_gen,
                   in_queue, default_routing, send_cancel, send_wait_gen,
                   recv_vars, call_vars, sync_vars, ghost_vars,
                   nput, nrecv, nsets>>

\* _send_loop resumed from "await connection.send(envelope)".
send_loop_sent ==
    /\ LoopRunning
    /\ send_pc = "sending"
    /\ ~send_cancel
    /\ \/ /\ route_log' = SetLastOutcome("sent")
          /\ send_pc' = "loop"
          /\ UNCHANGED <<send_exit, faults>>
       \/ /\ MayFail("send")
          /\ faults' = faults + 1
          /\ route_log' = SetLastOutcome("send_raised")
          /\ send_pc' = "done"
          /\ send_exit' = "exception"
    /\ send_conn' = NoId
    /\ UNCHANGED <<cfg_vars, child_status, mux_connected, out_gen, out_queue,
                   in_queue, default_routing, send_cancel, send_wait_gen,
                   recv_vars, call_vars, sync_vars, ghost_vars,
                   nput, nrecv, nsets>>

\* A send loop that swallows the CancelledError and waits on.
send_loop_uncancellable ==
    /\ LoopRunning
    /\ send_cancel
    /\ send_pc \in {"loop", "waiting", "sending"}
    /\ send_pc' = "waiting"
    /\ UNCHANGED <<cfg_vars, child_status, mux_connected, out_gen, out_queue,
                   in_queue, default_routing, send_cancel, send_wait_gen,
                   send_conn, send_exit,
                   recv_vars, call_vars, sync_vars, route_log, ghost_vars,
                   nput, nrecv, faults, nsets>>

\* _send_loop receiving the CancelledError of task.cancel().
send_loop_cancelled ==
    /\ LoopRunning
    /\ send_cancel
    /\ send_pc \in {"loop", "waiting", "sending"}
    /\ send_pc' = "done"
    /\ send_exit' = "cancelled"
    /\ send_conn' = NoId
    /\ route_log' = IF send_pc = "sending" THEN SetLastOutcome("cancelled")
                                            ELSE route_log
    /\ send_wait_gen' = 0
    /\ UNCHANGED <<cfg_vars, child_status, mux_connected, out_gen, out_queue,
                   in_queue, default_routing, send_cancel,
                   recv_vars, call_vars, sync_vars, ghost_vars,
                   nput, nrecv, faults, nsets>>

\* ---------------------------------------------------------- receive loop
Perms(D) == {s \in [1..Cardinality(D) -> D] : \A i, j \in DOMAIN s : s[i] = s[j] => i = j}

AllTasks(v) == [c \in ConnIds |-> v]

\* A loop body that puts an envelope at the head of the in-queue.
RECURSIVE process_done_front(_, _)
process_done_front(order, st) ==
    IF order = <<>> \/ st.raised THEN st
    ELSE LET c == Head(order)
         IN  IF st.tasks[c] = "exc" THEN [st EXCEPT !.raised = TRUE]
             ELSE process_done_front(Tail(order),
                    [inq |-> IF st.tasks[c] = "env"
                             THEN <<[id |-> st.envs[c], src |-> c]>> \o st.inq
                             ELSE st.inq,
                     tasks |-> [st.tasks EXCEPT ![c] =
                                  IF child_status[c] = "connected" THEN "pending"
                                                                   ELSE "none"],
                     envs |-> [st.envs EXCEPT ![c] = 0],
                     raised |-> FALSE])

\* A loop body that starts a new receive task whatever the connection reports.
RECURSIVE process_done_always(_, _)
process_done_always(order, st) ==
    IF order = <<>> \/ st.raised THEN st
    ELSE LET c == Head(order)
         IN  IF st.tasks[c] = "exc" THEN [st EXCEPT !.raised = TRUE]
             ELSE process_done_always(Tail(order),
                    [inq |-> IF st.tasks[c] = "env"
                             THEN Append(st.inq, [id |-> st.envs[c], src |-> c])
                             ELSE st.inq,
                     tasks |-> [st.tasks EXCEPT ![c] = "pending"],
                     envs |-> [st.envs EXCEPT ![c] = 0],
                     raised |-> FALSE])

\* The body of "for task in done" of _receiving_loop, over the done tasks in
\* the order the set yields them; st.raised is an exception of task.result().
RECURSIVE process_done(_, _)
process_done(order, st) ==
    IF order = <<>> \/ st.raised THEN st
    ELSE LET c == Head(order)
         IN  IF st.tasks[c] = "exc" THEN [st EXCEPT !.raised = TRUE]
             ELSE process_done(Tail(order),
                    [inq |-> IF st.tasks[c] = "env"
                             THEN Append(st.inq, [id |-> st.envs[c], src |-> c])
                             ELSE st.inq,
                     tasks |-> [st.tasks EXCEPT ![c] =
                                  IF child_status[c] = "connected" THEN "pending"
                                                                   ELSE "none"],
                     envs |-> [st.envs EXCEPT ![c] = 0],
                     raised |-> FALSE])

\* First run of _receiving_loop: one receive task per connection.
receiving_loop_start ==
    /\ LoopRunning
    /\ recv_pc = "ready"
    /\ ~recv_cancel
    /\ IF mux_connected /\ Len(Connections) > 0
       THEN /\ task_to_connection' = AllTasks("pending")
            /\ recv_pc' = "waiting"
       ELSE /\ task_to_connection' = AllTasks("none")
            /\ recv_pc' = "done"
    /\ UNCHANGED <<cfg_vars, child_status, mux_connected, out_gen, out_queue,
                   in_queue, default_routing, send_vars, recv_cancel, task_env,
                   call_vars, sync_vars, route_log, ghost_vars, nput, nrecv,
                   faults, nsets>>

\* A connection's receive() coroutine finishes: with an envelope, with None,
\* or with an exception.
receive(c) ==
    /\ LoopRunning
    /\ task_to_connection[c] = "pending"
    /\ \/ /\ nrecv < limits.recv
          /\ child_status[c] = "connected"
          /\ nrecv' = nrecv + 1
          /\ task_to_connection' = [task_to_connection EXCEPT ![c] = "env"]
          /\ task_env' = [task_env EXCEPT ![c] = nrecv + 1]
          /\ produced' = Append(produced, [id |-> nrecv + 1, src |-> c])
          /\ UNCHANGED faults
       \/ /\ nrecv < limits.recv
          /\ nrecv' = nrecv + 1
          /\ task_to_connection' = [task_to_connection EXCEPT ![c] = "eos"]
          /\ UNCHANGED <<task_env, faults, produced>>
       \/ /\ MayFail("receive")
          /\ faults' = faults + 1
          /\ task_to_connection' = [task_to_connection EXCEPT ![c] = "exc"]
          /\ UNCHANGED <<task_env, nrecv, produced>>
    /\ UNCHANGED <<limits, facade, ext_loop, default_connection, got, ser_vars,
                   ctor_vars, get_res, route_vars, put_msg, wallet, message_out_queue, handled, child_status, mux_connected, out_gen, out_queue,
                   in_queue, default_routing, send_vars, recv_pc, recv_cancel,
                   call_vars, sync_vars, route_log, ghost_vars, nput, nsets>>

\* _receiving_loop resumed from asyncio.wait(..., FIRST_COMPLETED).
receiving_loop ==
    /\ LoopRunning
    /\ recv_pc = "waiting"
    /\ ~recv_cancel
    /\ LET done == {c \in ConnIds : task_to_connection[c] \in {"env", "eos", "exc"}}
       IN  /\ done # {}
           /\ \E order \in Perms(done) :
                LET st == process_done(order, [inq |-> in_queue,
                                               tasks |-> task_to_connection,
                                               envs |-> task_env,
                                               raised |-> FALSE])
                    goes_on == /\ ~st.raised
                               /\ mux_connected
                               /\ \E c \in ConnIds : st.tasks[c] # "none"
                IN  /\ in_queue' = st.inq
                    /\ task_to_connection' = IF goes_on THEN st.tasks
                                                        ELSE AllTasks("none")
                    /\ task_env' = IF goes_on THEN st.envs ELSE AllTasks(0)
                    /\ recv_pc' = IF goes_on THEN "waiting" ELSE "done"
    /\ UNCHANGED <<cfg_vars, child_status, mux_connected, out_gen, out_queue,
                   default_routing, send_vars, recv_cancel, call_vars, sync_vars,
                   route_log, ghost_vars, nput, nrecv, faults, nsets>>

\* A cancelled _receiving_loop that ends without cancelling its receive tasks.
receiving_loop_cancelled_leaking ==
    /\ LoopRunning
    /\ recv_cancel
    /\ recv_pc \in {"ready", "waiting"}
    /\ recv_pc' = "done"
    /\ UNCHANGED <<task_to_connection, task_env>>
    /\ UNCHANGED <<cfg_vars, child_status, mux_connected, out_gen, out_queue,
                   in_queue, default_routing, send_vars, recv_cancel, call_vars,
                   sync_vars, route_log, ghost_vars, nput, nrecv, faults, nsets>>

\* _receiving_loop receiving the CancelledError of task.cancel().
receiving_loop_cancelled ==
    /\ LoopRunning
    /\ recv_cancel
    /\ recv_pc \in {"ready", "waiting"}
    /\ recv_pc' = "done"
    /\ task_to_connection' = AllTasks("none")
    /\ task_env' = AllTasks(0)
    /\ UNCHANGED <<cfg_vars, child_status, mux_connected, out_gen, out_queue,
                   in_queue, default_routing, send_vars, recv_cancel, call_vars,
                   sync_vars, route_log, ghost_vars, nput, nrecv, faults, nsets>>

\* ------------------------------------------------------------- lifecycle
\* What no step of connect() or disconnect() touches.
env_frame == <<cfg_vars, in_queue, default_routing, route_log, nput, nrecv, nsets,
               connect_called, put_refused>>

\* The coroutine of caller c returns or raises res; the sync Multiplexer then
\* finishes its own connect() or disconnect() around it.
Return(c, res, cancelled) ==
    /\ pc' = [pc EXCEPT ![c] = "idle"]
    /\ lock' = 0
    /\ op' = [op EXCEPT ![c] = "none"]
    /\ last_return' = [op |-> op[c], res |-> res, second |-> hsecond,
                       failed |-> child_failed, cancelled |-> cancelled]
    /\ hpc' = "none" /\ hidx' = 0 /\ hlist' = <<>> /\ hpath' = "none"
    /\ hsecond' = FALSE /\ hcancelled' = FALSE
    /\ child_failed' = FALSE
    /\ nreturns' = nreturns + 1
    /\ last_done' = IF res # "ok" THEN "failed"
                    ELSE IF op[c] = "disconnect" THEN "disconnect_ok"
                    ELSE "connect_ok"
    /\ sync_lock' = 0
    /\ UNCHANGED thread_was_started
    /\ IF facade /\ res = "ok"
       THEN IF op[c] = "connect"
            THEN /\ sync_is_connected' = TRUE
                 /\ UNCHANGED thread_alive
            ELSE /\ sync_is_connected' = FALSE
                 /\ thread_alive' = IF thread_alive /\ thread_was_started
                                    THEN FALSE ELSE thread_alive
       ELSE UNCHANGED <<sync_is_connected, thread_alive>>

Finish(c, res) == Return(c, res, hcancelled)

NoFinish == UNCHANGED <<pc, lock, op, last_return, sync_vars, last_done, nreturns>>

\* The callers are interchangeable: a call is made by the idle caller of the
\* lowest number.
FirstIdle(c) == \A d \in Callers : pc[d] = "idle" => c <= d

\* "async with self._lock": taken at once when free, else the caller waits.
TakeOrWait(c) ==
    /\ IF lock = 0
       THEN /\ lock' = c
            /\ pc' = [pc EXCEPT ![c] = "run"]
            /\ hpc' = "enter"
       ELSE /\ pc' = [pc EXCEPT ![c] = "wait"]
            /\ UNCHANGED <<lock, hpc>>
    /\ UNCHANGED <<hidx, hlist, hpath, hsecond, hcancelled>>

\* A call of connect(): Multiplexer.connect up to the submission of the
\* coroutine, then AsyncMultiplexer.connect up to "async with self._lock".
connect_call(c) ==
    /\ pc[c] = "idle"
    /\ FirstIdle(c)
    /\ ncalls < limits.calls
    /\ c \in limits.callers
    /\ facade => sync_lock = 0
    /\ ncalls' = ncalls + 1
    /\ op' = [op EXCEPT ![c] = "connect"]
    /\ sync_lock' = IF facade THEN c ELSE 0
    /\ thread_alive' = IF facade /\ ~LoopRunning THEN TRUE ELSE thread_alive
    /\ thread_was_started' = IF facade /\ ~LoopRunning THEN TRUE
                                                       ELSE thread_was_started
    /\ out_gen' = out_gen + 1
    /\ out_queue' = <<>>
    /\ last_done' = "connect_called"
    /\ connect_called' = TRUE
    /\ TakeOrWait(c)
    /\ UNCHANGED <<cfg_vars, in_queue, default_routing, route_log, nput, nrecv,
                   nsets, put_refused, child_status, mux_connected, send_vars, recv_vars,
                   sync_is_connected, connect_log, last_return, child_failed,
                   nreturns, faults>>

\* A call of disconnect() that reaches AsyncMultiplexer.disconnect.
disconnect_call(c) ==
    /\ pc[c] = "idle"
    /\ FirstIdle(c)
    /\ ncalls < limits.calls
    /\ c \in limits.callers
    /\ facade => (sync_lock = 0 /\ LoopRunning /\ sync_is_connected)
    /\ ncalls' = ncalls + 1
    /\ op' = [op EXCEPT ![c] = "disconnect"]
    /\ sync_lock' = IF facade THEN c ELSE 0
    /\ TakeOrWait(c)
    /\ UNCHANGED <<env_frame, child_status, mux_connected, out_gen, out_queue,
                   send_vars, recv_vars, thread_alive, thread_was_started,
                   sync_is_connected, connect_log, last_done, last_return,
                   child_failed, nreturns, faults>>

\* A Multiplexer.disconnect without its two guards: the coroutine is handed
\* to a loop that may not be running, and result(240) then times out.
disconnect_call_sync_unguarded(c) ==
    /\ pc[c] = "idle"
    /\ FirstIdle(c)
    /\ ncalls < limits.calls
    /\ c \in limits.callers
    /\ facade
    /\ sync_lock = 0
    /\ ~LoopRunning \/ ~sync_is_connected
    /\ ncalls' = ncalls + 1
    /\ last_return' = [op |-> "disconnect",
                       res |-> IF LoopRunning THEN "ok" ELSE "TimeoutError",
                       second |-> (last_done = "disconnect_ok"), failed |-> FALSE,
                       cancelled |-> FALSE]
    /\ last_done' = IF LoopRunning THEN "disconnect_ok" ELSE "failed"
    /\ nreturns' = nreturns + 1
    /\ UNCHANGED <<env_frame, child_status, mux_connected, out_gen, out_queue,
                   send_vars, recv_vars, call_vars, sync_vars,
                   connect_log, child_failed, faults>>

\* Multiplexer.disconnect when the loop is not running or when
\* self._is_connected is false: no coroutine is submitted.
disconnect_call_sync(c) ==
    /\ pc[c] = "idle"
    /\ FirstIdle(c)
    /\ ncalls < limits.calls
    /\ c \in limits.callers
    /\ facade
    /\ sync_lock = 0
    /\ ~LoopRunning \/ ~sync_is_connected
    /\ ncalls' = ncalls + 1
    /\ thread_alive' = IF LoopRunning /\ thread_alive /\ thread_was_started
                       THEN FALSE ELSE thread_alive
    /\ last_return' = [op |-> "disconnect", res |-> "ok",
                       second |-> (last_done = "disconnect_ok"), failed |-> FALSE,
                       cancelled |-> FALSE]
    /\ last_done' = "disconnect_ok"
    /\ nreturns' = nreturns + 1
    /\ UNCHANGED <<env_frame, child_status, mux_connected, out_gen, out_queue,
                   send_vars, recv_vars, call_vars,
                   sync_lock, thread_was_started, sync_is_connected,
                   connect_log, child_failed, faults>>

\* A waiting caller gets self._lock.
lock_acquire(c) ==
    /\ LoopRunning
    /\ pc[c] = "wait"
    /\ lock = 0
    /\ lock' = c
    /\ pc' = [pc EXCEPT ![c] = "run"]
    /\ hpc' = "enter"
    /\ UNCHANGED <<env_frame, child_status, mux_connected, out_gen, out_queue,
                   send_vars, recv_vars, op, hidx, hlist, hpath, hsecond,
                   hcancelled,
                   sync_vars, ghost_vars, faults>>

\* AsyncMultiplexer.connect inside the lock, up to _connect_all.
connect_enter ==
    /\ LoopRunning
    /\ lock # 0 /\ hpc = "enter" /\ op[lock] = "connect"
    /\ IF mux_connected
       THEN /\ Finish(lock, "ok")
            /\ UNCHANGED connect_log
       ELSE /\ hpc' = "connect_all" /\ hidx' = 1 /\ hlist' = <<>>
            /\ hpath' = "connect"
            /\ child_failed' = FALSE
            /\ connect_log' = <<>>
            /\ UNCHANGED <<hsecond, hcancelled>>
            /\ NoFinish
    /\ UNCHANGED <<env_frame, child_status, mux_connected, out_gen, out_queue,
                   send_vars, recv_vars, ncalls, faults>>

\* AsyncMultiplexer.disconnect inside the lock, up to its first await.
disconnect_enter ==
    /\ LoopRunning
    /\ lock # 0 /\ hpc = "enter" /\ op[lock] = "disconnect"
    /\ hsecond' = (last_done = "disconnect_ok")
    /\ UNCHANGED hcancelled
    /\ IF ~mux_connected
       THEN hpc' = "stop_recv" /\ hpath' = "disconnect_idle"
       ELSE hpc' = "disconnect_all" /\ hpath' = "disconnect"
    /\ hidx' = 1 /\ hlist' = <<>>
    /\ NoFinish
    /\ UNCHANGED <<env_frame, child_status, mux_connected, out_gen, out_queue,
                   send_vars, recv_vars, op, connect_log, child_failed, ncalls,
                   faults>>

\* Position after element hidx of a loop over n elements.
Advance(n, after) ==
    IF hidx + 1 > n THEN hpc' = after /\ hidx' = 1
                    ELSE hidx' = hidx + 1 /\ UNCHANGED hpc

\* A _connect_all that goes on to the next connection after one has raised.
connect_all_continue ==
    /\ LoopRunning
    /\ lock # 0 /\ hpc = "connect_all"
    /\ LET conn == Connections[hidx]
       IN  \/ /\ child_status[conn] = "connected"
              /\ hlist' = Append(hlist, conn)
              /\ Advance(Len(Connections), "connect_check")
              /\ UNCHANGED <<child_status, connect_log, child_failed, faults>>
           \/ /\ child_status[conn] # "connected"
              /\ child_status' = [child_status EXCEPT ![conn] = "connected"]
              /\ connect_log' = Append(connect_log, conn)
              /\ hlist' = Append(hlist, conn)
              /\ Advance(Len(Connections), "connect_check")
              /\ UNCHANGED <<child_failed, faults>>
           \/ /\ child_status[conn] # "connected"
              /\ MayFail("connect")
              /\ faults' = faults + 1
              /\ \E st \in {"disconnected", "connecting"} :
                    child_status' = [child_status EXCEPT ![conn] = st]
              /\ connect_log' = Append(connect_log, conn)
              /\ child_failed' = TRUE
              /\ hlist' = Append(hlist, conn)
              /\ Advance(Len(Connections), "connect_check")
           \/ /\ child_status[conn] # "connected"
              /\ MayFail("connect")
              /\ faults' = faults + 1
              /\ child_status' = [child_status EXCEPT ![conn] = "disconnected"]
              /\ connect_log' = Append(connect_log, conn)
              /\ child_failed' = TRUE
              /\ Advance(Len(Connections), "connect_check")
              /\ UNCHANGED hlist
    /\ UNCHANGED <<hpath, hsecond, hcancelled>>
    /\ NoFinish
    /\ UNCHANGED <<env_frame, mux_connected, out_gen, out_queue, send_vars,
                   recv_vars, ncalls>>

\* One iteration of the loop of _connect_all: _connect_one on the connection
\* at position hidx, which connects, returns without connecting, or raises.
connect_all ==
    /\ LoopRunning
    /\ lock # 0 /\ hpc = "connect_all"
    /\ LET conn == Connections[hidx]
       IN  \/ /\ child_status[conn] = "connected"
              /\ hlist' = Append(hlist, conn)
              /\ Advance(Len(Connections), "connect_check")
              /\ UNCHANGED <<child_status, connect_log, child_failed, faults>>
           \/ /\ child_status[conn] # "connected"
              /\ child_status' = [child_status EXCEPT ![conn] = "connected"]
              /\ connect_log' = Append(connect_log, conn)
              /\ hlist' = Append(hlist, conn)
              /\ Advance(Len(Connections), "connect_check")
              /\ UNCHANGED <<child_failed, faults>>
           \/ /\ child_status[conn] # "connected"
              /\ MayFail("connect")
              /\ faults' = faults + 1
              /\ \E st \in {"disconnected", "connecting"} :
                    child_status' = [child_status EXCEPT ![conn] = st]
              /\ connect_log' = Append(connect_log, conn)
              /\ child_failed' = TRUE
              /\ hlist' = Append(hlist, conn)
              /\ Advance(Len(Connections), "connect_check")
           \/ /\ child_status[conn] # "connected"
              /\ MayFail("connect")
              /\ faults' = faults + 1
              /\ child_status' = [child_status EXCEPT ![conn] = "disconnected"]
              /\ connect_log' = Append(connect_log, conn)
              /\ child_failed' = TRUE
              /\ hpc' = IF hlist = <<>> THEN "connect_check" ELSE "rollback"
              /\ hidx' = 1
              /\ UNCHANGED hlist
    /\ UNCHANGED <<hpath, hsecond, hcancelled>>
    /\ NoFinish
    /\ UNCHANGED <<env_frame, mux_connected, out_gen, out_queue, send_vars,
                   recv_vars, ncalls>>

\* The except branch of _connect_all: _disconnect_one on the connections
\* connected so far; an exception of disconnect() leaves _connect_all and is
\* caught by connect().
rollback ==
    /\ LoopRunning
    /\ lock # 0 /\ hpc = "rollback"
    /\ LET conn == hlist[hidx]
       IN  \/ /\ child_status[conn] # "connected"
              /\ Advance(Len(hlist), "connect_check")
              /\ UNCHANGED <<child_status, mux_connected, faults>>
           \/ /\ child_status[conn] = "connected"
              /\ child_status' = [child_status EXCEPT ![conn] = "disconnected"]
              /\ Advance(Len(hlist), "connect_check")
              /\ UNCHANGED <<mux_connected, faults>>
           \/ /\ child_status[conn] = "connected"
              /\ MayFail("disconnect")
              /\ faults' = faults + 1
              /\ mux_connected' = FALSE
              /\ hpc' = "stop_recv" /\ hidx' = 1
              /\ UNCHANGED child_status
    /\ UNCHANGED <<hlist, hpath, hsecond, hcancelled>>
    /\ NoFinish
    /\ UNCHANGED <<env_frame, out_gen, out_queue, send_vars, recv_vars,
                   connect_log, child_failed, ncalls>>

\* connect() after _connect_all: the assertion, then either the two loop
\* tasks are created or the except branch starts _stop.
connect_check ==
    /\ LoopRunning
    /\ lock # 0 /\ hpc = "connect_check"
    /\ IF is_connected
       THEN /\ mux_connected' = TRUE
            /\ recv_pc' = "ready" /\ recv_cancel' = FALSE
            /\ send_pc' = "loop" /\ send_cancel' = FALSE
            /\ send_exit' = "none"
            /\ Finish(lock, "ok")
            /\ UNCHANGED <<send_wait_gen, send_conn, task_to_connection, task_env>>
       ELSE /\ mux_connected' = FALSE
            /\ hpc' = "stop_recv" /\ hidx' = 1
            /\ UNCHANGED <<hlist, hpath, hsecond, hcancelled, child_failed>>
            /\ NoFinish
            /\ UNCHANGED <<send_vars, recv_vars>>
    /\ UNCHANGED <<env_frame, child_status, out_gen, out_queue, connect_log,
                   ncalls, faults>>

\* A _disconnect_all that stops at the first disconnect() that raises.
disconnect_all_abort ==
    /\ LoopRunning
    /\ lock # 0 /\ hpc = "disconnect_all"
    /\ LET conn == Connections[hidx]
       IN  \/ /\ child_status[conn] # "connected"
              /\ UNCHANGED <<child_status, faults>>
           \/ /\ child_status[conn] = "connected"
              /\ child_status' = [child_status EXCEPT ![conn] = "disconnected"]
              /\ UNCHANGED faults
           \/ /\ child_status[conn] = "connected"
              /\ MayFail("disconnect")
              /\ faults' = faults + 1
              /\ UNCHANGED child_status
    /\ IF faults' # faults THEN hpc' = "stop_recv" /\ hidx' = 1
                           ELSE Advance(Len(Connections), "stop_recv")
    /\ UNCHANGED <<hlist, hpath, hsecond, hcancelled>>
    /\ NoFinish
    /\ UNCHANGED <<env_frame, mux_connected, out_gen, out_queue, send_vars,
                   recv_vars, op, connect_log, child_failed, ncalls>>

\* One iteration of the loop of _disconnect_all: an exception of
\* _disconnect_one is logged and the loop goes on.
disconnect_all ==
    /\ LoopRunning
    /\ lock # 0 /\ hpc = "disconnect_all"
    /\ LET conn == Connections[hidx]
       IN  \/ /\ child_status[conn] # "connected"
              /\ UNCHANGED <<child_status, faults>>
           \/ /\ child_status[conn] = "connected"
              /\ child_status' = [child_status EXCEPT ![conn] = "disconnected"]
              /\ UNCHANGED faults
           \/ /\ child_status[conn] = "connected"
              /\ MayFail("disconnect")
              /\ faults' = faults + 1
              /\ UNCHANGED child_status
    /\ Advance(Len(Connections), "stop_recv")
    /\ UNCHANGED <<hlist, hpath, hsecond, hcancelled>>
    /\ NoFinish
    /\ UNCHANGED <<env_frame, mux_connected, out_gen, out_queue, send_vars,
                   recv_vars, op, connect_log, child_failed, ncalls>>

\* The task that runs connect() or disconnect() is cancelled while it awaits
\* a connection. In connect() the CancelledError is caught by the "except
\* Exception" of _connect_all where it is an Exception, and by the except
\* branch of connect() where it is not; in disconnect() it leaves wait_for and
\* is caught by the except branch of disconnect().
call_cancelled ==
    /\ LoopRunning
    /\ lock # 0 /\ hpc \in {"connect_all", "disconnect_all"}
    /\ MayFail("cancel")
    /\ faults' = faults + 1
    /\ IF hpc = "connect_all"
       THEN /\ hcancelled' = TRUE
            /\ \/ /\ hpc' = IF hlist = <<>> THEN "connect_check" ELSE "rollback"
                  /\ UNCHANGED mux_connected
               \/ /\ hpc' = "stop_recv"
                  /\ mux_connected' = FALSE
            /\ hidx' = 1
            /\ UNCHANGED <<hlist, hpath, hsecond, child_failed>>
            /\ NoFinish
       ELSE /\ Return(lock, "AEAConnectionError", TRUE)
            /\ UNCHANGED mux_connected
    /\ UNCHANGED <<env_frame, child_status, out_gen, out_queue, send_vars,
                   recv_vars, connect_log, ncalls>>

\* cancel_and_wait(task): nothing to wait for when the task is None or done,
\* else task.cancel() and the caller waits for the task to end.
cancel_and_wait_returns(task_pc) == task_pc \in {"none", "done"}

\* _stop: cancel_and_wait(self._recv_loop_task).
stop_recv ==
    /\ LoopRunning
    /\ lock # 0 /\ hpc = "stop_recv"
    /\ IF cancel_and_wait_returns(recv_pc)
       THEN hpc' = "stop_send" /\ UNCHANGED recv_cancel
       ELSE recv_cancel' = TRUE /\ UNCHANGED hpc
    /\ recv_cancel => cancel_and_wait_returns(recv_pc)
    /\ UNCHANGED <<hidx, hlist, hpath, hsecond, hcancelled>>
    /\ NoFinish
    /\ UNCHANGED <<env_frame, child_status, mux_connected, out_gen, out_queue,
                   send_vars, recv_pc, task_to_connection, task_env, op,
                   connect_log, child_failed, ncalls, faults>>

\* The connections _stop disconnects: the list is built once, before the loop.
stop_list ==
    SelectSeq(Connections,
              LAMBDA c : child_status[c] \in {"connected", "connecting"})

\* A _stop that leaves the send loop task alone.
stop_send_skipped ==
    /\ LoopRunning
    /\ lock # 0 /\ hpc = "stop_send"
    /\ hpc' = "stop_children" /\ hidx' = 1
    /\ hlist' = stop_list
    /\ UNCHANGED <<out_queue, send_cancel>>
    /\ UNCHANGED <<hpath, hsecond, hcancelled>>
    /\ NoFinish
    /\ UNCHANGED <<env_frame, child_status, mux_connected, out_gen, send_pc,
                   send_wait_gen, send_conn, send_exit, recv_vars, op,
                   connect_log, child_failed, ncalls, faults>>

\* _stop: the None token and cancel_and_wait(self._send_loop_task); put() on
\* the unbounded queue does not suspend, so the cancellation is requested in
\* the same run.
stop_send ==
    /\ LoopRunning
    /\ lock # 0 /\ hpc = "stop_send"
    /\ IF cancel_and_wait_returns(send_pc)
       THEN /\ hpc' = "stop_children" /\ hidx' = 1
            /\ hlist' = stop_list
            /\ UNCHANGED <<out_queue, send_cancel>>
       ELSE /\ out_queue' = Append(out_queue, NoneEnvelope)
            /\ send_cancel' = TRUE
            /\ UNCHANGED <<hpc, hidx, hlist>>
    /\ send_cancel => cancel_and_wait_returns(send_pc)
    /\ UNCHANGED <<hpath, hsecond, hcancelled>>
    /\ NoFinish
    /\ UNCHANGED <<env_frame, child_status, mux_connected, out_gen, send_pc,
                   send_wait_gen, send_conn, send_exit, recv_vars, op,
                   connect_log, child_failed, ncalls, faults>>

\* A disconnect() that lets the exception of _stop through as it is.
stop_outcome_raw(raised) ==
    IF raised THEN "Exception"
    ELSE IF hpath = "connect" THEN "AEAConnectionError" ELSE "ok"

\* How connect() or disconnect() ends once _stop has returned or raised.
stop_outcome(raised) ==
    IF hpath = "connect" THEN (IF raised THEN "Exception" ELSE "AEAConnectionError")
    ELSE IF hpath = "disconnect_idle" THEN (IF raised THEN "Exception" ELSE "ok")
    ELSE (IF raised THEN "AEAConnectionError" ELSE "ok")

\* _stop: the loop over the connections still connected or connecting, and
\* what follows _stop in the caller.
stop_children ==
    /\ LoopRunning
    /\ lock # 0 /\ hpc = "stop_children"
    /\ IF hidx > Len(hlist)
       THEN /\ Finish(lock, stop_outcome(FALSE))
            /\ mux_connected' = IF hpath = "disconnect" THEN FALSE ELSE mux_connected
            /\ UNCHANGED <<child_status, faults>>
       ELSE \/ /\ child_status' = [child_status EXCEPT ![hlist[hidx]] = "disconnected"]
               /\ hidx' = hidx + 1
               /\ UNCHANGED <<hpc, hlist, hpath, hsecond, hcancelled, mux_connected, faults,
                              child_failed>>
               /\ NoFinish
            \/ /\ child_status[hlist[hidx]] # "disconnected"
               /\ MayFail("disconnect")
               /\ faults' = faults + 1
               /\ Finish(lock, stop_outcome(TRUE))
               /\ UNCHANGED <<child_status, mux_connected>>
    /\ UNCHANGED <<env_frame, out_gen, out_queue, send_vars, recv_vars,
                   connect_log, ncalls>>

\* ------------------------------------------------- callers and connections
\* A put at the head of the out-queue.
put_front(envelope) ==
    /\ nput < limits.puts
    /\ out_gen # 0
    /\ LoopRunning
    /\ nput' = nput + 1
    /\ out_queue' = <<envelope>> \o out_queue
    /\ UNCHANGED <<cfg_vars, child_status, mux_connected, out_gen, in_queue,
                   default_routing, send_vars, recv_vars, call_vars, sync_vars,
                   route_log, ghost_vars, nrecv, faults, nsets>>

\* A put that makes the out-queue when there is none.
put_creating(envelope) ==
    /\ nput < limits.puts
    /\ LoopRunning
    /\ nput' = nput + 1
    /\ out_queue' = Append(out_queue, envelope)
    /\ UNCHANGED <<cfg_vars, child_status, mux_connected, out_gen, in_queue,
                   default_routing, send_vars, recv_vars, call_vars, sync_vars,
                   route_log, ghost_vars, nrecv, faults, nsets>>

\* AsyncMultiplexer.put / Multiplexer.put / OutBox.put of a new envelope; it
\* needs self._out_queue and, through the sync Multiplexer, a running loop.
put(envelope) ==
    /\ nput < limits.puts
    /\ out_gen # 0
    /\ LoopRunning
    /\ nput' = nput + 1
    /\ out_queue' = Append(out_queue, envelope)
    /\ UNCHANGED <<cfg_vars, child_status, mux_connected, out_gen, in_queue,
                   default_routing, send_vars, recv_vars, call_vars, sync_vars,
                   route_log, ghost_vars, nrecv, faults, nsets>>

\* An envelope with a context that names a connection.
Envelope_with_hint(i, p) == Envelope(i, p, "c2")

\* Envelope(to=to, sender=sender, protocol_id=protocol_id, message=message):
\* without a context argument the envelope gets EnvelopeContext().
Envelope_without_context(i, p) == Envelope(i, p, EmptyContext.connection_id)

\* OutBox.put_message(to, sender, protocol_id, message), with the number of
\* the call standing for to, sender and message.
put_message(protocol_id) ==
    /\ nput < limits.puts
    /\ out_gen # 0
    /\ LoopRunning
    /\ nput' = nput + 1
    /\ put_msg' = [n |-> nput + 1, protocol_id |-> protocol_id]
    /\ out_queue' = Append(out_queue, Envelope_without_context(nput + 1, protocol_id))
    /\ UNCHANGED <<limits, facade, ext_loop, default_connection, got, produced,
                   ser_vars, ctor_vars, get_res, route_vars, wallet, message_out_queue, handled,
                   child_status, mux_connected, out_gen, in_queue,
                   default_routing, send_vars, recv_vars, call_vars, sync_vars,
                   route_log, ghost_vars, nrecv, faults, nsets>>

\* put while self._out_queue is None fails the assertion of out_queue; put
\* through the sync Multiplexer while no loop runs ends in the timeout of
\* result(240).
put_raises ==
    /\ nput < limits.puts
    /\ out_gen = 0 \/ ~LoopRunning
    /\ put_refused' = IF LoopRunning THEN "AssertionError" ELSE "TimeoutError"
    /\ UNCHANGED <<cfg_vars, child_status, mux_connected, out_gen, out_queue,
                   in_queue, default_routing, send_vars, recv_vars, call_vars,
                   sync_vars, route_log, connect_log, last_done, last_return,
                   child_failed, nreturns, ncalls, connect_called, nput, nrecv,
                   faults, nsets>>

\* AsyncMultiplexer.get(block=False) on a non-empty in-queue.
get ==
    /\ in_queue # <<>>
    /\ in_queue' = Tail(in_queue)
    /\ got' = Append(got, Head(in_queue))
    /\ UNCHANGED <<limits, facade, ext_loop, default_connection, produced,
                   ser_vars, ctor_vars, get_res, route_vars, put_msg, wallet, message_out_queue, handled, child_status, mux_connected, out_gen, out_queue,
                   default_routing, send_vars, recv_vars, call_vars, sync_vars,
                   route_log, ghost_vars, nput, nrecv, faults, nsets>>

\* One get(block=False) of the in-queue, through the multiplexer or the InBox.
get_call(via) ==
    LET r == CASE via = "Multiplexer.get" -> multiplexer_get(in_queue)
               [] via = "InBox.get" -> inbox_get(in_queue)
               [] OTHER -> inbox_get_nowait(in_queue)
    IN  /\ get_res.n < MaxGets
        /\ get_res' = [n |-> get_res.n + 1, via |-> via, out |-> r]
        /\ in_queue' = r.queue
        /\ got' = IF r.raised = "none" /\ r.value # NoneEnvelope
                  THEN Append(got, r.value) ELSE got
        /\ UNCHANGED <<limits, facade, ext_loop, default_connection, produced,
                       ser_vars, ctor_vars, route_vars, put_msg, wallet, message_out_queue, handled, child_status, mux_connected, out_gen,
                       out_queue, default_routing, send_vars, recv_vars,
                       call_vars, sync_vars, route_log, ghost_vars, nput, nrecv,
                       faults, nsets>>

\* The setter of default_routing.
set_default_routing(table) ==
    /\ nsets < limits.sets
    /\ nsets' = nsets + 1
    /\ default_routing' = table
    /\ UNCHANGED <<cfg_vars, child_status, mux_connected, out_gen, out_queue,
                   in_queue, send_vars, recv_vars, call_vars, sync_vars,
                   route_log, ghost_vars, nput, nrecv, faults>>

\* A connection loses its link on its own.
connection_lost(c) ==
    /\ child_status[c] = "connected"
    /\ MayFail("lost")
    /\ faults' = faults + 1
    /\ child_status' = [child_status EXCEPT ![c] = "disconnected"]
    /\ UNCHANGED <<cfg_vars, mux_connected, out_gen, out_queue, in_queue,
                   default_routing, send_vars, recv_vars, call_vars, sync_vars,
                   route_log, ghost_vars, nput, nrecv, nsets>>

PutEnvelopes == {Envelope(nput + 1, k[1], k[2]) : k \in limits.envs}

\* The steps of connect() and disconnect() of the AsyncMultiplexer.
Lifecycle ==
    \/ \E c \in Callers : connect_call(c)
    \/ \E c \in Callers : disconnect_call(c)
    \/ \E c \in Callers : lock_acquire(c)
    \/ connect_enter
    \/ disconnect_enter
    \/ connect_all
    \/ rollback
    \/ connect_check
    \/ disconnect_all
    \/ stop_recv
    \/ stop_send
    \/ stop_children

SendLoop ==
    \/ send_loop
    \/ send_loop_get
    \/ send_loop_sent
    \/ send_loop_cancelled

ReceivingLoop ==
    \/ receiving_loop_start
    \/ \E c \in ConnIds : receive(c)
    \/ receiving_loop
    \/ receiving_loop_cancelled

Next ==
    \/ Lifecycle
    \/ SendLoop
    \/ ReceivingLoop
    \/ \E e \in PutEnvelopes : put(e)
    \/ put_raises
    \/ get
    \/ \E c \in ConnIds : connection_lost(c)

AllEnvelopes == Protocols \X {NoId, "c1", "c2", UnknownId}

\* connect() and disconnect() of an AsyncMultiplexer under failing connections.
Limits ==
    [calls |-> MaxCalls, callers |-> Callers, puts |-> MaxPuts, recv |-> MaxRecv,
     sets |-> 0, faults |-> MaxFaults, kinds |-> {"connect", "disconnect", "lost"},
     envs |-> {<<"p", NoId>>}, facade |-> {FALSE}, default |-> {"c1"}]

Init == InitWith(Limits)

Spec == Init /\ [][Next]_vars

\* The send loop of a connected AsyncMultiplexer: every kind of envelope, a
\* routing table set at any time, send() of a connection raising.
SendLimits ==
    [calls |-> 1, callers |-> {1}, puts |-> SendMaxPuts, recv |-> 0,
     sets |-> SendMaxRoutingSets, faults |-> SendMaxFaults, kinds |-> {"send"},
     envs |-> AllEnvelopes, facade |-> {FALSE}, default |-> ConnIds]

InitSend == InitWith(SendLimits)

NextSend ==
    \/ \E c \in Callers : connect_call(c)
    \/ connect_enter
    \/ connect_all
    \/ connect_check
    \/ receiving_loop_start
    \/ send_loop
    \/ send_loop_get
    \/ send_loop_sent
    \/ \E e \in PutEnvelopes : put(e)
    \/ put_raises
    \/ \E t \in RoutingTables : set_default_routing(t)

SpecSend == InitSend /\ [][NextSend]_vars

\* connect() and disconnect() called one after the other, on an
\* AsyncMultiplexer and on a sync Multiplexer with or without a loop of its own.
FacadeLimits ==
    [calls |-> MaxCalls, callers |-> {1}, puts |-> MaxPuts, recv |-> 0,
     sets |-> 0, faults |-> MaxFaults, kinds |-> {"connect", "disconnect"},
     envs |-> {<<"p", NoId>>}, facade |-> BOOLEAN, default |-> {"c1"}]

InitFacade == InitWith(FacadeLimits)

NextFacade ==
    \/ \E c \in Callers : connect_call(c)
    \/ \E c \in Callers : disconnect_call(c)
    \/ \E c \in Callers : disconnect_call_sync(c)
    \/ connect_enter
    \/ disconnect_enter
    \/ connect_all
    \/ rollback
    \/ connect_check
    \/ disconnect_all
    \/ stop_recv
    \/ stop_send
    \/ stop_children
    \/ SendLoop
    \/ receiving_loop_start
    \/ receiving_loop_cancelled
    \/ \E e \in PutEnvelopes : put(e)
    \/ put_raises

SpecFacade == InitFacade /\ [][NextFacade]_vars

\* connect() and disconnect() with connections that never fail and no
\* envelope in either direction; the event loop runs every task that can run.
QuietLimits ==
    [calls |-> MaxCalls, callers |-> Callers, puts |-> 0, recv |-> 0,
     sets |-> 0, faults |-> 0, kinds |-> {},
     envs |-> {}, facade |-> {FALSE}, default |-> {"c1"}]

InitQuiet == InitWith(QuietLimits)

NextQuiet ==
    \/ \E c \in Callers : connect_call(c)
    \/ \E c \in Callers : disconnect_call(c)
    \/ \E c \in Callers : lock_acquire(c)
    \/ connect_enter
    \/ disconnect_enter
    \/ connect_all
    \/ connect_check
    \/ disconnect_all
    \/ stop_recv
    \/ stop_send
    \/ stop_children
    \/ send_loop
    \/ send_loop_cancelled
    \/ receiving_loop_start
    \/ receiving_loop_cancelled

\* What the event loop does on its own: every step but the calls.
LoopSteps ==
    \/ \E c \in Callers : lock_acquire(c)
    \/ connect_enter
    \/ disconnect_enter
    \/ connect_all
    \/ connect_check
    \/ disconnect_all
    \/ stop_recv
    \/ stop_send
    \/ stop_children
    \/ send_loop
    \/ send_loop_cancelled
    \/ receiving_loop_start
    \/ receiving_loop_cancelled

SpecQuiet == InitQuiet /\ [][NextQuiet]_vars /\ WF_vars(LoopSteps)

\* The receive loop of a connected AsyncMultiplexer: connections that return
\* envelopes or None, raise, or lose their link, and a caller of get.
RecvLimits ==
    [calls |-> 1, callers |-> {1}, puts |-> 0, recv |-> RecvMaxRecv,
     sets |-> 0, faults |-> RecvMaxFaults, kinds |-> {"receive", "lost"},
     envs |-> {}, facade |-> {FALSE}, default |-> {"c1"}]

InitRecv == InitWith(RecvLimits)

NextRecv ==
    \/ \E c \in Callers : connect_call(c)
    \/ connect_enter
    \/ connect_all
    \/ connect_check
    \/ send_loop
    \/ receiving_loop_start
    \/ \E c \in ConnIds : receive(c)
    \/ receiving_loop
    \/ get
    \/ \E c \in ConnIds : connection_lost(c)

SpecRecv == InitRecv /\ [][NextRecv]_vars

\* The send loop of a connected AsyncMultiplexer while another thread
\* replaces the routing table, between the two reads of _send too.
RouteMaxPuts == 1
RouteMaxSets == 2
RouteTables == RoutingTables \cup {EmptyRouting}

RouteLimits ==
    [calls |-> 1, callers |-> {1}, puts |-> RouteMaxPuts, recv |-> 0,
     sets |-> RouteMaxSets, faults |-> 0, kinds |-> {},
     envs |-> {<<"p", NoId>>, <<"q", NoId>>, <<"p", "c1">>},
     facade |-> {FALSE}, default |-> {"c1"}]

InitRoute == InitWith(RouteLimits)

NextRoute ==
    \/ \E c \in Callers : connect_call(c)
    \/ connect_enter
    \/ connect_all
    \/ connect_check
    \/ receiving_loop_start
    \/ send_loop
    \/ send_loop_get
    \/ send_loop_test
    \/ send_loop_lookup
    \/ send_loop_sent
    \/ \E e \in PutEnvelopes : put(e)
    \/ put_raises
    \/ \E t \in RouteTables : set_default_routing(t)

SpecRoute == InitRoute /\ [][NextRoute]_vars

\* The send loop of a connected AsyncMultiplexer fed through an OutBox.
OutBoxMaxPuts == 2
OutBoxMaxSets == 1

OutBoxLimits ==
    [calls |-> 1, callers |-> {1}, puts |-> OutBoxMaxPuts, recv |-> 0,
     sets |-> OutBoxMaxSets, faults |-> 0, kinds |-> {},
     envs |-> {}, facade |-> {FALSE}, default |-> ConnIds]

InitOutBox == InitWith(OutBoxLimits)

NextOutBox ==
    \/ \E c \in Callers : connect_call(c)
    \/ connect_enter
    \/ connect_all
    \/ connect_check
    \/ receiving_loop_start
    \/ send_loop
    \/ send_loop_get
    \/ send_loop_sent
    \/ \E p \in Protocols : put_message(p)
    \/ put_raises
    \/ \E t \in RoutingTables : set_default_routing(t)

SpecOutBox == InitOutBox /\ [][NextOutBox]_vars

\* The receiving side with the three non-blocking gets.
GetLimits ==
    [calls |-> 1, callers |-> {1}, puts |-> 0, recv |-> RecvMaxRecv,
     sets |-> 0, faults |-> 0, kinds |-> {"receive"},
     envs |-> {}, facade |-> {FALSE}, default |-> {"c1"}]

InitGet == InitWith(GetLimits)

NextGet ==
    \/ \E c \in Callers : connect_call(c)
    \/ connect_enter
    \/ connect_all
    \/ connect_check
    \/ send_loop
    \/ receiving_loop_start
    \/ \E c \in ConnIds : receive(c)
    \/ receiving_loop
    \/ \E via \in Getters : get_call(via)

SpecGet == InitGet /\ [][NextGet]_vars

\* connect() and disconnect() whose task is cancelled by its owner.
CancelLimits ==
    [calls |-> MaxCalls, callers |-> {1}, puts |-> 0, recv |-> 0,
     sets |-> 0, faults |-> 1, kinds |-> {"cancel"},
     envs |-> {}, facade |-> {FALSE}, default |-> {"c1"}]

InitCancel == InitWith(CancelLimits)

NextCancel ==
    \/ \E c \in Callers : connect_call(c)
    \/ \E c \in Callers : disconnect_call(c)
    \/ connect_enter
    \/ disconnect_enter
    \/ connect_all
    \/ rollback
    \/ connect_check
    \/ disconnect_all
    \/ call_cancelled
    \/ stop_recv
    \/ stop_send
    \/ stop_children
    \/ send_loop
    \/ send_loop_cancelled
    \/ receiving_loop_start
    \/ receiving_loop_cancelled

SpecCancel == InitCancel /\ [][NextCancel]_vars

\* -------------------------------------------------------------- serializer
mux_vars == <<limits, facade, ext_loop, default_connection, got, produced,
              ctor_vars, get_res, route_vars, put_msg, wallet, message_out_queue, handled,
              child_status, mux_connected, out_gen, out_queue, in_queue,
              default_routing, send_vars, recv_vars, call_vars, sync_vars,
              route_log, ghost_vars, nput, nrecv, faults, nsets>>

\* A constructor that connects the connections it is given.
construct_connecting(connections, default_connection_index) ==
    /\ ctor_pc = "idle"
    /\ ctor_args' = [connections |-> connections, index |-> default_connection_index]
    /\ ctor_res' = init(connections, default_connection_index)
    /\ ctor_pc' = "done"
    /\ child_status' = [c \in ConnIds |-> "connected"]
    /\ UNCHANGED <<limits, facade, ext_loop, default_connection, got, produced,
                   ser_vars, get_res, route_vars, put_msg, wallet, message_out_queue, handled, mux_connected, out_gen, out_queue,
                   in_queue, default_routing, send_vars, recv_vars, call_vars,
                   sync_vars, route_log, ghost_vars, nput, nrecv, faults, nsets>>

\* AsyncMultiplexer(connections, default_connection_index) is tried.
construct(connections, default_connection_index) ==
    /\ ctor_pc = "idle"
    /\ ctor_args' = [connections |-> connections, index |-> default_connection_index]
    /\ ctor_res' = init(connections, default_connection_index)
    /\ ctor_pc' = "done"
    /\ UNCHANGED <<limits, facade, ext_loop, default_connection, got, produced,
                   ser_vars, get_res, route_vars, put_msg, wallet, message_out_queue, handled, child_status, mux_connected, out_gen, out_queue,
                   in_queue, default_routing, send_vars, recv_vars, call_vars,
                   sync_vars, route_log, ghost_vars, nput, nrecv, faults, nsets>>

CtorLimits ==
    [calls |-> 0, callers |-> {}, puts |-> 0, recv |-> 0,
     sets |-> 0, faults |-> 0, kinds |-> {},
     envs |-> {}, facade |-> {FALSE}, default |-> ConnIds]

InitCtor == InitWith(CtorLimits)

NextCtor == \E l \in ConnectionLists, i \in Indexes : construct(l, i)

SpecCtor == InitCtor /\ [][NextCtor]_vars

\* Before a multiplexer exists the connections belong to their owner, who may
\* have connected them.
owner_connect(c) ==
    /\ ctor_pc = "idle"
    /\ child_status[c] = "disconnected"
    /\ child_status' = [child_status EXCEPT ![c] = "connected"]
    /\ UNCHANGED <<cfg_vars, mux_connected, out_gen, out_queue, in_queue,
                   default_routing, send_vars, recv_vars, call_vars, sync_vars,
                   route_log, ghost_vars, nput, nrecv, faults, nsets>>

\* Construction over connections in any state.
NextNew ==
    \/ \E c \in ConnIds : owner_connect(c)
    \/ \E l \in ConnectionLists, i \in Indexes : construct(l, i)

SpecNew == InitCtor /\ [][NextNew]_vars

\* DecisionMakerHandler(identity, wallet, ledger_apis): the wallet holds a
\* crypto object for the ledgers it was given a key of, any set of the
\* supported ones.
DecisionMakerHandler_init(w) ==
    /\ wallet = {"none"}
    /\ wallet' = w
    /\ UNCHANGED <<message_out_queue, handled,
                   limits, facade, ext_loop, default_connection, got, produced,
                   ser_vars, ctor_vars, get_res, route_vars, put_msg,
                   child_status, mux_connected, out_gen, out_queue, in_queue,
                   default_routing, send_vars, recv_vars, call_vars, sync_vars,
                   route_log, ghost_vars, nput, nrecv, faults, nsets>>

\* DecisionMakerHandler.handle(message), with what the context answers
\* during the call.
handle_call(message, ctx) ==
    /\ wallet # {"none"}
    /\ handled.n < MaxHandles
    /\ LET res == handle(message, wallet, ctx)
       IN  /\ handled' = [n |-> handled.n + 1, message |-> message,
                          context |-> ctx, res |-> res]
           /\ message_out_queue' = message_out_queue \o res.put
    /\ UNCHANGED <<wallet,
                   limits, facade, ext_loop, default_connection, got, produced,
                   ser_vars, ctor_vars, get_res, route_vars, put_msg,
                   child_status, mux_connected, out_gen, out_queue, in_queue,
                   default_routing, send_vars, recv_vars, call_vars, sync_vars,
                   route_log, ghost_vars, nput, nrecv, faults, nsets>>

NextDM ==
    \/ \E w \in SUBSET SUPPORTED_LEDGER_APIS : DecisionMakerHandler_init(w)
    \/ \E message \in InternalMessages, ctx \in HandlerContexts :
          handle_call(message, ctx)

SpecDM == InitCtor /\ [][NextDM]_vars

\* Envelope.encode / ProtobufEnvelopeSerializer.encode of one envelope.
encode_call(envelope) ==
    /\ ser_pc = "idle"
    /\ ser_env' = envelope
    /\ ser_wire' = encode(envelope)
    /\ ser_pc' = "encoded"
    /\ UNCHANGED <<ser_out, mux_vars>>

\* Envelope.decode / ProtobufEnvelopeSerializer.decode of what encode wrote.
decode_call ==
    /\ ser_pc = "encoded"
    /\ ser_out' = decode(ser_wire)
    /\ ser_pc' = "decoded"
    /\ UNCHANGED <<ser_env, ser_wire, mux_vars>>

\* decode of a record that somebody else wrote.
decode_record(envelope_pb) ==
    /\ ser_pc = "idle"
    /\ ser_wire' = envelope_pb
    /\ ser_out' = decode(envelope_pb)
    /\ ser_pc' = "decoded_record"
    /\ UNCHANGED <<ser_env, mux_vars>>

SerLimits ==
    [calls |-> 0, callers |-> {}, puts |-> 0, recv |-> 0,
     sets |-> 0, faults |-> 0, kinds |-> {},
     envs |-> {}, facade |-> {FALSE}, default |-> {"c1"}]

InitSer == InitWith(SerLimits)

NextSer ==
    \/ \E e \in WireEnvelopes : encode_call(e)
    \/ decode_call
    \/ \E r \in WireRecords : decode_record(r)

SpecSer == InitSer /\ [][NextSer]_vars

\* ------------------------------------------------------------ properties
\* The connection an envelope is meant for, by the order context, default
\* routing table, default connection; r is an entry of route_log.
Target(r) ==
    IF r.env.connection_id # NoId THEN r.env.connection_id
    ELSE IF r.table[r.env.protocol_id] # NoId THEN r.table[r.env.protocol_id]
    ELSE r.dflt

Attempted(r) == r.outcome \in {"sending", "sent", "send_raised", "cancelled"}

Restricted(c, p) ==
    restricted_to_protocols[c] # {} /\ p \notin restricted_to_protocols[c]

\* The send loop has just taken an envelope from the out-queue.
Taken == Len(route_log') = Len(route_log) + 1

NoCallInProgress == \A c \in Callers : pc[c] = "idle"

LoopsStopped == send_pc \in {"none", "done"} /\ recv_pc \in {"none", "done"}

AllDown ==
    /\ \A c \in ConnIds : child_status[c] = "disconnected"
    /\ ~mux_connected
    /\ LoopsStopped

\* C1: every envelope taken by the send loop is sent, if at all, on the
\* connection named by its context; else on the one the default routing table
\* names for its protocol; else on the default connection.
C1_RoutingPriority ==
    \A i \in DOMAIN route_log :
        Attempted(route_log[i]) => route_log[i].conn = Target(route_log[i])

\* An envelope was sent on the connection of its context although the table
\* and the default connection both name the other connection.
C1_Witness ==
    \E i \in DOMAIN route_log :
        LET r == route_log[i]
        IN  /\ r.outcome = "sent" /\ r.conn = "c1"
            /\ r.env.connection_id = "c1"
            /\ r.table[r.env.protocol_id] = "c2"
            /\ r.dflt = "c2"

\* C2: an envelope whose connection has a non-empty restricted_to_protocols
\* without its protocol is dropped, send() is called on no connection and the
\* send loop goes on; a connection with an empty set is sent every protocol.
C2_RestrictedDropped ==
    [][Taken =>
        LET r == Last(route_log')
        IN  Target(r) \in ConnIds =>
              IF Restricted(Target(r), r.env.protocol_id)
              THEN /\ r.outcome = "dropped" /\ r.conn = NoId
                   /\ send_conn' = NoId
                   /\ send_pc' = "loop" /\ send_exit' = "none"
              ELSE r.outcome = "sending" /\ send_conn' = Target(r)]_vars

\* An envelope was dropped for its protocol and the one after it was sent.
C2_Witness ==
    /\ Len(route_log) = 2
    /\ route_log[1].outcome = "dropped"
    /\ Restricted(Target(route_log[1]), route_log[1].env.protocol_id)
    /\ route_log[2].outcome = "sent"

\* C3: an envelope routed to an id that is not in the connection map fails
\* with AEAConnectionError, send() is called on no connection (not on the
\* default one either) and the send loop stays alive.
C3_UnknownConnection ==
    [][Taken =>
        LET r == Last(route_log')
        IN  Target(r) \notin ConnIds =>
              /\ r.outcome = "AEAConnectionError" /\ r.conn = NoId
              /\ send_conn' = NoId
              /\ send_pc' = "loop" /\ send_exit' = "none"]_vars

\* An envelope for an unknown id failed and the one after it was sent.
C3_Witness ==
    /\ Len(route_log) = 2
    /\ route_log[1].outcome = "AEAConnectionError"
    /\ Target(route_log[1]) = UnknownId
    /\ route_log[2].outcome = "sent"

\* C4: when send() of a connection raises, the send loop keeps running as
\* long as the multiplexer stays connected.
C4_SendErrorContained ==
    (/\ \E i \in DOMAIN route_log : route_log[i].outcome = "send_raised"
     /\ mux_connected /\ is_connected)
        => send_pc \notin {"none", "done"}

\* C5: a connect() during which a connection failed to connect ends with
\* AEAConnectionError, every connection disconnected, the status not
\* connected and no loop running.
C5_ConnectFailure ==
    [][(/\ nreturns' = nreturns + 1
        /\ last_return'.op = "connect"
        /\ last_return'.failed)
       => (last_return'.res = "AEAConnectionError" /\ AllDown')]_vars

\* C6: while no connect() or disconnect() is in progress, the status says
\* connected exactly when every connection is connected.
C6_AggregateStatus ==
    NoCallInProgress => (mux_connected <=> is_connected)

\* C7: the send loop of a connected multiplexer waits on the queue that put
\* fills, however many times connect() was called.
C7_SecondConnectNoOp ==
    (NoCallInProgress /\ mux_connected /\ send_pc = "waiting")
        => send_wait_gen = out_gen

\* C8: a disconnect() that follows a successful disconnect() raises nothing
\* and leaves every connection disconnected, the status not connected and
\* both loops ended, as the first one did.
C8_DisconnectIdempotent ==
    [][(/\ nreturns' = nreturns + 1
        /\ last_return'.op = "disconnect"
        /\ last_return'.second)
       => /\ last_return'.res = "ok"
          /\ AllDown']_vars

C10_SentinelConsumed ==
    last_done = "disconnect_ok" =>
        /\ \A c \in ConnIds : task_to_connection[c] = "none"
        /\ \A i \in DOMAIN out_queue : out_queue[i] # NoneEnvelope

\* C11: with no envelope sent or received and connections that do not fail,
\* a disconnect() of a connected multiplexer returns, and then every
\* connection is disconnected and both loop tasks have ended.
C11_ConnectDisconnectTerminates ==
    (hpath = "disconnect") ~> (last_done = "disconnect_ok" /\ AllDown)

\* disconnect() has returned after a connect(), the send loop task having
\* been cancelled and the receive loop task ended.
C11_Witness ==
    /\ last_return.op = "disconnect" /\ last_return.res = "ok"
    /\ last_done = "disconnect_ok" /\ AllDown
    /\ send_exit = "cancelled" /\ recv_pc = "done"
    /\ nput = 0 /\ nrecv = 0

\* C12: the envelopes sent on one connection are sent in the order in which
\* they were put (envelope ids count the puts), and a send is begun only when
\* the one before it has ended.
C12_SendOrder ==
    /\ \A i, j \in DOMAIN route_log :
          (/\ i < j
           /\ Attempted(route_log[i]) /\ Attempted(route_log[j])
           /\ route_log[i].conn = route_log[j].conn)
              => route_log[i].env.id < route_log[j].env.id
    /\ \A i \in DOMAIN route_log :
          route_log[i].outcome = "sending" => (i = Len(route_log) /\ send_pc = "sending")

\* Two envelopes put one after the other were both sent on one connection.
C12_Witness ==
    /\ Len(route_log) = 2
    /\ route_log[1].outcome = "sent" /\ route_log[2].outcome = "sent"
    /\ route_log[1].conn = route_log[2].conn
    /\ route_log[1].env.id = 1 /\ route_log[2].env.id = 2

\* The envelopes that have reached the in-queue, oldest first: those get has
\* returned, then those still queued.
Delivered == got \o in_queue

\* The envelope is the result of a receive task the loop has not looked at.
Held(e) == task_to_connection[e.src] = "env" /\ task_env[e.src] = e.id

Occurrences(q, e) == Cardinality({i \in DOMAIN q : q[i] = e})

\* C13: the envelopes of one connection reach the in-queue, and leave it
\* through get, in the order in which the connection returned them (envelope
\* ids count the results of receive()).
C13_ReceiveOrder ==
    \A i, j \in DOMAIN Delivered :
        (i < j /\ Delivered[i].src = Delivered[j].src)
            => Delivered[i].id < Delivered[j].id

\* get has returned two envelopes of c1 in their order, with one of c2
\* between them.
C13_Witness ==
    /\ Len(got) = 3
    /\ got[1].src = "c1" /\ got[2].src = "c2" /\ got[3].src = "c1"
    /\ got[1].id < got[3].id

\* C14: while the multiplexer is connected, every envelope a receive() has
\* returned is once in the in-queue or in what get has returned, or is the
\* result of a task the receive loop is about to process.
C14_ReceivedExactlyOnce ==
    mux_connected =>
        \A k \in DOMAIN produced :
            Occurrences(Delivered, produced[k])
                + (IF Held(produced[k]) THEN 1 ELSE 0) = 1

\* C20: a receive task that ended with None is not replaced by a new receive
\* task of its connection.
C20_NoRespawnAfterEndOfStream ==
    [][\A c \in ConnIds :
          task_to_connection[c] = "eos" => task_to_connection'[c] # "pending"]_vars

\* C15: while the multiplexer and its connections are connected, an envelope
\* in the out-queue has a send loop that will take it: the loop task has not
\* ended.
C15_NoEnvelopeStuck ==
    (mux_connected /\ is_connected /\ out_queue # <<>>) => send_pc # "done"

\* C16: an envelope whose context has no connection_id comes back from
\* decode(encode(e)) equal in all five fields.
C16_RoundTrip ==
    (ser_pc = "decoded" /\ ser_env.context.connection_id = NoId)
        => ser_out = ser_env

\* C17: decode gives an empty context for a record whose uri is the empty
\* string, and a context with the URI of the string and no connection_id
\* for any other record.
C17_DecodeContext ==
    ser_pc \in {"decoded", "decoded_record"} =>
        ser_out.context = IF ser_wire.uri = "" THEN EmptyContext
                          ELSE EnvelopeContext(NoId, URI(ser_wire.uri))

\* C18: encode writes the empty string as uri when the context has no URI
\* and the string of the URI otherwise.
C18_EncodeUri ==
    ser_pc = "encoded" =>
        ser_wire.uri = IF ser_env.context.uri.set THEN ser_env.context.uri.raw
                                                  ELSE ""

\* C19: an envelope whose context holds a connection_id and no URI comes
\* back from decode(encode(e)) with its to, sender, protocol_id and message
\* and an empty context.
C19_ConnectionIdNotSerialized ==
    (/\ ser_pc = "decoded"
     /\ ser_env.context.connection_id # NoId
     /\ ~ser_env.context.uri.set)
        => ser_out = [ser_env EXCEPT !.context = EmptyContext]

\* Such an envelope has gone through encode and decode.
C19_Witness ==
    /\ ser_pc = "decoded"
    /\ ser_env.context = EnvelopeContext("c1", NoUri)
    /\ ser_env.to = "b" /\ ser_env.message = "m2"
    /\ ser_out.context = EmptyContext

\* C21: when the receive task of one connection has raised while another
\* connection is connected and has its receive task, the receive loop of the
\* connected multiplexer goes on.
C21_ReceiveErrorContained ==
    [][(/\ recv_pc = "waiting" /\ mux_connected
        /\ \E c, d \in ConnIds :
              /\ c # d
              /\ task_to_connection[c] = "exc"
              /\ task_to_connection[d] \in {"pending", "env"}
              /\ child_status[d] = "connected")
       => recv_pc' = "waiting"]_vars

\* C22: a connect() or disconnect() whose task was cancelled does not end
\* with AEAConnectionError or another error, and a cancelled send loop does
\* not end with an error either.
C22_CancellationNotAnError ==
    [][/\ (nreturns' = nreturns + 1 /\ last_return'.cancelled)
            => last_return'.res \notin {"AEAConnectionError", "Exception"}
       /\ (send_cancel /\ send_pc # "done" /\ send_pc' = "done")
            => send_exit' = "cancelled"]_vars

\* C23: the constructor fails exactly when the list is empty, two
\* connections share an id or the index is not a position of the list; what
\* it constructs has pairwise distinct ids and a default connection that is
\* the member of the list at the index, as has the multiplexer of this model.
C23_Construction ==
    /\ ctor_pc = "done" =>
          LET l == ctor_args.connections
              i == ctor_args.index
              valid == /\ Len(l) > 0
                       /\ \A j, k \in DOMAIN l : l[j] = l[k] => j = k
                       /\ i \in 0..(Len(l) - 1)
          IN  /\ ctor_res.ok <=> valid
              /\ ctor_res.ok =>
                    /\ Cardinality(ctor_res.ids) = Len(l)
                    /\ ctor_res.default = l[i + 1]
                    /\ ctor_res.default \in ctor_res.ids
    /\ Cardinality(ConnIds) = Len(Connections)
    /\ default_connection \in ConnIds

\* A multiplexer of three connections was constructed with the last one as
\* its default.
C23_Witness ==
    /\ ctor_pc = "done" /\ ctor_res.ok
    /\ Len(ctor_args.connections) = 3 /\ ctor_args.index = 2
    /\ ctor_res.default = ctor_args.connections[3]

C25_DisconnectWithoutConnect ==
    (facade /\ ~connect_called /\ nreturns > 0) =>
        /\ last_return.op = "disconnect"
        /\ last_return.res = "ok"
        /\ AllDown
        /\ ~thread_alive

\* Two such disconnect() calls have returned, on a Multiplexer whose event
\* loop is not running.
C25_Witness ==
    /\ facade /\ ~connect_called /\ ~ext_loop
    /\ nreturns = 2 /\ last_return.op = "disconnect"

\* C26: the sync Multiplexer starts its worker thread only in a connect()
\* that finds the event loop not running; every disconnect() that returns
\* leaves a worker thread that this Multiplexer started stopped, and leaves a
\* loop that somebody else runs running.
C26_WorkerThread ==
    [][facade =>
         /\ (thread_alive' /\ ~thread_alive) =>
                (~LoopRunning /\ \E c \in Callers : op'[c] = "connect" /\ op[c] = "none")
         /\ (nreturns' = nreturns + 1 /\ last_return'.op = "disconnect") =>
                /\ thread_was_started' => ~thread_alive'
                /\ (thread_alive /\ ~thread_alive') => thread_was_started
                /\ ext_loop' = ext_loop]_vars

\* C27: what connect() and disconnect() change is changed under the lifecycle
\* lock: the out-queue is never replaced while another call holds the lock,
\* and a connection is connected, a loop task started and the aggregate
\* status set only in a step of the call that holds the lock.
C27_LifecycleLock ==
    [][/\ out_gen' # out_gen => lock = 0
       /\ mux_connected' # mux_connected => lock # 0
       /\ (\E c \in ConnIds : child_status'[c] = "connected"
                                /\ child_status[c] # "connected") => lock # 0
       /\ (send_pc = "none" /\ send_pc' # "none") => lock # 0
       /\ (recv_pc = "none" /\ recv_pc' # "none") => lock # 0]_vars

\* The routing decision for an envelope when both reads of _send see the
\* same table.
send_with(envelope, table) == send_lookup(envelope, send_test(envelope, table), table)

\* C28: the routing decision for an envelope, with the table replaced at any
\* moment, is the one that the table before or the table after gives: never
\* a mixture of both and never a failed lookup.
C28_SingleTableVersion ==
    [][(send_pc = "routing" /\ send_pc' # "routing") =>
         LET r == Last(route_log')
         IN  [outcome |-> r.outcome, conn |-> r.conn] \in
                {send_with(send_env, send_table),
                 send_with(send_env, default_routing)}]_vars

\* C29: every connection id that the default routing table gives for a
\* protocol is the id of a connection of the multiplexer.
C29_RoutingToPresentConnections ==
    \A p \in Protocols :
        default_routing[p] # NoId => default_routing[p] \in ConnIds

\* C30: a put_message adds to the out-queue one envelope of the protocol
\* given, with no connection id in its context; the send loop sends such an
\* envelope, if at all, on the connection that the default routing table
\* names for its protocol, else on the default connection.
C30_PutMessage ==
    [][/\ put_msg' # put_msg =>
            out_queue' = Append(out_queue,
                [id |-> put_msg'.n, protocol_id |-> put_msg'.protocol_id,
                 connection_id |-> NoId])
       /\ Taken =>
            LET r == Last(route_log')
            IN  /\ r.env.connection_id = NoId
                /\ Attempted(r) =>
                      r.conn = (IF r.table[r.env.protocol_id] # NoId
                                THEN r.table[r.env.protocol_id] ELSE r.dflt)]_vars

\* Two messages were put; the second was sent on c2, which is not the default
\* connection, because the routing table names c2 for its protocol.
C30_Witness ==
    /\ put_msg.n = 2 /\ Len(route_log) = 2
    /\ route_log[2].outcome = "sent" /\ route_log[2].conn = "c2"
    /\ route_log[2].dflt = "c1" /\ route_log[2].env.connection_id = NoId

Range(q) == {q[i] : i \in DOMAIN q}

C32_DisconnectEveryChild ==
    [][/\ (hpc # "disconnect_all" /\ hpc' = "disconnect_all") =>
            (mux_connected /\ hidx' = 1)
       /\ (hpc = "disconnect_all" /\ <<hpc, hidx>>' # <<hpc, hidx>>) =>
            LET conn == Connections[hidx]
            IN  /\ child_status[conn] = "connected" =>
                      \/ child_status'[conn] = "disconnected"
                      \/ faults' = faults + 1
                /\ IF hidx < Len(Connections)
                   THEN hpc' = "disconnect_all" /\ hidx' = hidx + 1
                   ELSE hpc' = "stop_recv"]_vars

\* disconnect() of c1 raised and c2 was disconnected after it.
C32_Witness ==
    /\ hpc = "stop_recv" /\ hpath = "disconnect"
    /\ faults = 1
    /\ child_status["c1"] = "connected" /\ child_status["c2"] = "disconnected"

\* C33: a receive loop that is cancelled ends at its next step; a receive
\* loop does not wait on an empty set of receive tasks; and a receive loop that
\* has ended has left no receive task behind.
C33_ReceiveLoopEnds ==
    [][/\ (recv_cancel /\ recv_pc \in {"ready", "waiting"} /\ recv_pc' # recv_pc)
            => recv_pc' = "done"
       /\ recv_pc' = "waiting" => \E c \in ConnIds : task_to_connection'[c] # "none"
       /\ recv_pc' \in {"none", "done"}
            => \A c \in ConnIds : task_to_connection'[c] = "none"]_vars

\* A receive loop that had delivered an envelope was cancelled and has ended.
C33_Witness ==
    /\ recv_pc = "done" /\ recv_cancel /\ in_queue # <<>>
    /\ \A c \in ConnIds : task_to_connection[c] = "none"

\* C34: the constructor calls connect() of no connection and leaves every
\* connection in the status it had; as long as no connect() has been called
\* the aggregate status is not connected, there is no out-queue and there
\* are no loop tasks.
C34_ConstructionDoesNotConnect ==
    /\ [][(ctor_pc = "idle" /\ ctor_pc' = "done") =>
             (child_status' = child_status /\ connect_log' = connect_log)]_vars
    /\ [](~connect_called =>
             /\ ~mux_connected
             /\ out_gen = 0
             /\ send_pc = "none" /\ recv_pc = "none"
             /\ connect_log = <<>>)

\* A multiplexer was constructed over c1 and c2 while c2 was connected.
C34_Witness ==
    /\ ctor_pc = "done" /\ ctor_res.ok /\ ctor_res.ids = {"c1", "c2"}
    /\ child_status["c1"] = "disconnected" /\ child_status["c2"] = "connected"

\* C35: the send loop takes every envelope at most once, so that it is sent
\* at most once and on one connection: no two entries of the log are for one
\* envelope, and an envelope that was taken is not in the out-queue again,
\* whether its send() succeeded or raised.
C35_AtMostOneSend ==
    /\ \A i, j \in DOMAIN route_log :
          route_log[i].env.id = route_log[j].env.id => i = j
    /\ \A i \in DOMAIN route_log : \A k \in DOMAIN out_queue :
          out_queue[k].id # route_log[i].env.id

\* The send() of the first envelope raised, which ended the send loop with
\* the second envelope still in the out-queue.
C35_Witness ==
    /\ Len(route_log) = 1 /\ route_log[1].outcome = "send_raised"
    /\ Len(out_queue) = 1 /\ send_pc = "done"

\* C36: from the return of a successful disconnect() to the next call of
\* connect(), with no call in progress, the send loop takes no envelope and
\* sends none, no receive task exists, nothing is added to the in-queue, and
\* the next connect() starts with an empty out-queue.
C36_QuietAfterDisconnect ==
    [][/\ (/\ last_done = "disconnect_ok" /\ NoCallInProgress
           /\ last_done' = "disconnect_ok" /\ NoCallInProgress')
            => /\ route_log' = route_log
               /\ send_pc' \in {"none", "done"}
               /\ \A c \in ConnIds : task_to_connection'[c] = "none"
               /\ Len(in_queue') <= Len(in_queue)
       /\ (last_done = "disconnect_ok" /\ last_done' = "connect_called")
            => out_queue' = <<>>]_vars

\* disconnect() has returned while an envelope that was put was still in the
\* out-queue; nothing was sent.
C36_Witness ==
    /\ last_done = "disconnect_ok" /\ NoCallInProgress
    /\ route_log = <<>>
    /\ \E i \in DOMAIN out_queue : out_queue[i] # NoneEnvelope

\* C37: while the status says connected and no connect() or disconnect() is
\* in progress, the send loop task and the receive loop task exist and have
\* not ended.
C37_ConnectedMeansLoopsAlive ==
    (mux_connected /\ NoCallInProgress) =>
        (send_pc \notin {"none", "done"} /\ recv_pc \notin {"none", "done"})

\* C38: when disconnect() of a connected multiplexer ends because the
\* disconnect() of a connection raised in _stop, it ends with
\* AEAConnectionError; both loops have ended, the connections _stop tried
\* before that one are disconnected, that one is not, and the status still
\* says connected, so that the next disconnect() walks all connections again.
C38_DisconnectFailure ==
    [][/\ (/\ hpc = "stop_children" /\ hpath = "disconnect"
           /\ hidx <= Len(hlist)
           /\ nreturns' = nreturns + 1)
            => /\ last_return'.op = "disconnect"
               /\ last_return'.res = "AEAConnectionError"
               /\ LoopsStopped'
               /\ \A k \in 1..(hidx - 1) : child_status'[hlist[k]] = "disconnected"
               /\ child_status'[hlist[hidx]] # "disconnected"
               /\ mux_connected'
       /\ (/\ hpc = "enter" /\ hpc' # "enter" /\ lock # 0
           /\ op[lock] = "disconnect" /\ mux_connected)
            => (hpc' = "disconnect_all" /\ hidx' = 1)]_vars

\* disconnect() has failed on c1, whose disconnect() raised in _disconnect_all
\* and again in _stop; c2 is disconnected and the status says connected.
C38_Witness ==
    /\ NoCallInProgress
    /\ last_return.op = "disconnect" /\ last_return.res = "AEAConnectionError"
    /\ mux_connected /\ LoopsStopped
    /\ child_status["c1"] = "connected" /\ child_status["c2"] = "disconnected"

\* C39: the receive loop has one receive task per connection when it starts
\* and none when it is not running; afterwards a receive task is started for
\* a connection only in the step in which the loop has looked at the
\* completed task of this connection, and only if the connection reports
\* connected in that step.
C39_OneReceiveTaskPerConnection ==
    [][/\ \A c \in ConnIds :
            (task_to_connection'[c] = "pending" /\ task_to_connection[c] # "pending")
                => \/ recv_pc = "ready" /\ task_to_connection[c] = "none"
                   \/ /\ recv_pc = "waiting"
                      /\ task_to_connection[c] \in {"env", "eos"}
                      /\ child_status[c] = "connected"
       /\ recv_pc' # "waiting" => \A c \in ConnIds : task_to_connection'[c] = "none"]_vars

\* The loop has delivered an envelope of c1 and started the next receive task
\* for c1, and has started none for c2, which was no longer connected when
\* its task completed.
C39_Witness ==
    /\ recv_pc = "waiting"
    /\ \E i \in DOMAIN in_queue : in_queue[i].src = "c1"
    /\ task_to_connection["c1"] = "pending"
    /\ task_to_connection["c2"] = "none" /\ child_status["c2"] # "connected"

\* C40: handle answers every TransactionMessage whose ledger id is supported
\* or off-chain and whose performative is PROPOSE_FOR_SETTLEMENT or
\* PROPOSE_FOR_SIGNING with exactly one response on the message out-queue,
\* SUCCESSFUL, FAILED or REJECTED settlement, respectively SUCCESSFUL or
\* REJECTED signing; it puts no response for a message with an unsupported
\* ledger id; and it makes no transfer and no signature for a transaction
\* that is not acceptable.
C40_OneResponsePerProposal ==
    [][handled'.n # handled.n =>
        LET m == handled'.message
            ctx == handled'.context
            supported == m.ledger_id \in SUPPORTED_LEDGER_APIS \cup {OFF_CHAIN}
            one(performatives) ==
                /\ Len(message_out_queue') = Len(message_out_queue) + 1
                /\ SubSeq(message_out_queue', 1, Len(message_out_queue))
                     = message_out_queue
                /\ Last(message_out_queue').performative \in performatives
        IN  m.kind = "TransactionMessage" =>
              /\ supported /\ m.performative = "PROPOSE_FOR_SETTLEMENT"
                   => one({"SUCCESSFUL_SETTLEMENT", "FAILED_SETTLEMENT",
                           "REJECTED_SETTLEMENT"})
              /\ supported /\ m.performative = "PROPOSE_FOR_SIGNING"
                   => one({"SUCCESSFUL_SIGNING", "REJECTED_SIGNING"})
              /\ ~supported => message_out_queue' = message_out_queue
              /\ m.performative = "PROPOSE_FOR_SETTLEMENT"
                   /\ ~(m.sender_amount <= 0 /\ ctx.utility_enhancing /\ ctx.affordable)
                   => handled'.res.calls = <<>>
              /\ m.performative = "PROPOSE_FOR_SIGNING"
                   /\ ~((m.tx_hash = "bytes" \/ m.tx # "None")
                        /\ ctx.utility_enhancing /\ ctx.affordable)
                   => handled'.res.calls = <<>>]_vars
====
